---- MODULE Spec2Model ----
(***************************************************************************)
(* Model of accessibility_checker.py: the pipeline                         *)
(*   main -> generate_report -> fetch_html -> build_report -> file write   *)
(* with the five accessibility checks, the finding parser (add_records)    *)
(* and the table renderer of build_report.                                 *)
(*                                                                         *)
(* A Python str is a sequence of one-character strings; Chars turns a      *)
(* literal into that form.  A parsed document (soup) is the sequence of    *)
(* its nodes in document order; every node records its tag name, its       *)
(* attributes, the index of its parent (0 is the BeautifulSoup root) and,  *)
(* for a text node, its string.                                            *)
(***************************************************************************)
EXTENDS Integers, Sequences, FiniteSets, TLC

VARIABLES pc, source, meta, soup, findings, records, col_widths,
          table_lines, report_text, files, printed, fetches, raw

vars == <<pc, source, meta, soup, findings, records, col_widths,
          table_lines, report_text, files, printed, fetches, raw>>

(***************************************************************************)
(* Bounds of the model.                                                    *)
(***************************************************************************)
MaxTitleLen == 11
MaxShortTitle == 2
MaxPad == 1
MaxHeadings == 3
MaxImages == 3
MaxLinks == 2
MaxFields == 2

(***************************************************************************)
(* Python str operations.                                                  *)
(***************************************************************************)
Chars(s) == [i \in 1..Len(s) |-> SubSeq(s, i, i)]

\* A character outside printable ASCII, and the grave accent U+0060, is
\* written as the numeric reference of its code point; each is one code point,
\* hence one element of a string.
RSQUO == "&#x2019;"
NDASH == "&#x2013;"
VT == "&#xB;"
NBSP == "&#xA0;"
KELVIN == "&#x212A;"
CapitalSigma == "&#x3A3;"
SmallSigma == "&#x3C3;"
SmallFinalSigma == "&#x3C2;"

\* The characters str.strip() removes: every code point c with c.isspace().
Whitespace ==
    {" ", "\t", "\n", "\r", "\f", VT, "&#x1C;", "&#x1D;", "&#x1E;", "&#x1F;",
     "&#x85;", NBSP, "&#x1680;", "&#x2000;", "&#x2001;", "&#x2002;",
     "&#x2003;", "&#x2004;", "&#x2005;", "&#x2006;", "&#x2007;", "&#x2008;",
     "&#x2009;", "&#x200A;", "&#x2028;", "&#x2029;", "&#x202F;", "&#x205F;",
     "&#x3000;"}

Max(S) == CHOOSE x \in S : \A y \in S : y <= x
Min(S) == CHOOSE x \in S : \A y \in S : x <= y

Repeat(c, n) == [i \in 1..n |-> c]

\* str.strip()
Strip(s) ==
    LET keep == {i \in 1..Len(s) : s[i] \notin Whitespace}
    IN  IF keep = {} THEN <<>> ELSE SubSeq(s, Min(keep), Max(keep))

\* str.rstrip(chars)
RStrip(s, chars) ==
    LET keep == {i \in 1..Len(s) : s[i] \notin chars}
    IN  IF keep = {} THEN <<>> ELSE SubSeq(s, 1, Max(keep))

\* positions at which sub occurs in s
Occurrences(s, sub) ==
    {i \in 1..(Len(s) - Len(sub) + 1) : SubSeq(s, i, i + Len(sub) - 1) = sub}

\* sub in s
Contains(s, sub) == Occurrences(s, sub) # {}

\* s.endswith(sub)
EndsWith(s, sub) ==
    /\ Len(s) >= Len(sub)
    /\ SubSeq(s, Len(s) - Len(sub) + 1, Len(s)) = sub

\* s.startswith(sub)
StartsWith(s, sub) ==
    /\ Len(s) >= Len(sub)
    /\ SubSeq(s, 1, Len(sub)) = sub

\* s.split(sub, 1) when sub occurs in s: the parts around the first occurrence
SplitFirst(s, sub) ==
    LET i == Min(Occurrences(s, sub))
    IN  <<SubSeq(s, 1, i - 1), SubSeq(s, i + Len(sub), Len(s))>>

\* s.rsplit(sub, 1) when sub occurs in s: the parts around the last occurrence
RSplitLast(s, sub) ==
    LET i == Max(Occurrences(s, sub))
    IN  <<SubSeq(s, 1, i - 1), SubSeq(s, i + Len(sub), Len(s))>>

\* The lower-case mapping of str.lower(): every code point whose lower-case
\* form differs from itself, with that form (U+0130 maps to two code points).
\* For U+03A3 it is the form outside the final position.
LowerPairs == {
    <<"A", <<"a">>>>, <<"B", <<"b">>>>, <<"C", <<"c">>>>, <<"D", <<"d">>>>,
    <<"E", <<"e">>>>, <<"F", <<"f">>>>, <<"G", <<"g">>>>, <<"H", <<"h">>>>,
    <<"I", <<"i">>>>, <<"J", <<"j">>>>, <<"K", <<"k">>>>, <<"L", <<"l">>>>,
    <<"M", <<"m">>>>, <<"N", <<"n">>>>, <<"O", <<"o">>>>, <<"P", <<"p">>>>,
    <<"Q", <<"q">>>>, <<"R", <<"r">>>>, <<"S", <<"s">>>>, <<"T", <<"t">>>>,
    <<"U", <<"u">>>>, <<"V", <<"v">>>>, <<"W", <<"w">>>>, <<"X", <<"x">>>>,
    <<"Y", <<"y">>>>, <<"Z", <<"z">>>>, <<"&#xC0;", <<"&#xE0;">>>>,
    <<"&#xC1;", <<"&#xE1;">>>>, <<"&#xC2;", <<"&#xE2;">>>>,
    <<"&#xC3;", <<"&#xE3;">>>>, <<"&#xC4;", <<"&#xE4;">>>>,
    <<"&#xC5;", <<"&#xE5;">>>>, <<"&#xC6;", <<"&#xE6;">>>>,
    <<"&#xC7;", <<"&#xE7;">>>>, <<"&#xC8;", <<"&#xE8;">>>>,
    <<"&#xC9;", <<"&#xE9;">>>>, <<"&#xCA;", <<"&#xEA;">>>>,
    <<"&#xCB;", <<"&#xEB;">>>>, <<"&#xCC;", <<"&#xEC;">>>>,
    <<"&#xCD;", <<"&#xED;">>>>, <<"&#xCE;", <<"&#xEE;">>>>,
    <<"&#xCF;", <<"&#xEF;">>>>, <<"&#xD0;", <<"&#xF0;">>>>,
    <<"&#xD1;", <<"&#xF1;">>>>, <<"&#xD2;", <<"&#xF2;">>>>,
    <<"&#xD3;", <<"&#xF3;">>>>, <<"&#xD4;", <<"&#xF4;">>>>,
    <<"&#xD5;", <<"&#xF5;">>>>, <<"&#xD6;", <<"&#xF6;">>>>,
    <<"&#xD8;", <<"&#xF8;">>>>, <<"&#xD9;", <<"&#xF9;">>>>,
    <<"&#xDA;", <<"&#xFA;">>>>, <<"&#xDB;", <<"&#xFB;">>>>,
    <<"&#xDC;", <<"&#xFC;">>>>, <<"&#xDD;", <<"&#xFD;">>>>,
    <<"&#xDE;", <<"&#xFE;">>>>, <<"&#x100;", <<"&#x101;">>>>,
    <<"&#x102;", <<"&#x103;">>>>, <<"&#x104;", <<"&#x105;">>>>,
    <<"&#x106;", <<"&#x107;">>>>, <<"&#x108;", <<"&#x109;">>>>,
    <<"&#x10A;", <<"&#x10B;">>>>, <<"&#x10C;", <<"&#x10D;">>>>,
    <<"&#x10E;", <<"&#x10F;">>>>, <<"&#x110;", <<"&#x111;">>>>,
    <<"&#x112;", <<"&#x113;">>>>, <<"&#x114;", <<"&#x115;">>>>,
    <<"&#x116;", <<"&#x117;">>>>, <<"&#x118;", <<"&#x119;">>>>,
    <<"&#x11A;", <<"&#x11B;">>>>, <<"&#x11C;", <<"&#x11D;">>>>,
    <<"&#x11E;", <<"&#x11F;">>>>, <<"&#x120;", <<"&#x121;">>>>,
    <<"&#x122;", <<"&#x123;">>>>, <<"&#x124;", <<"&#x125;">>>>,
    <<"&#x126;", <<"&#x127;">>>>, <<"&#x128;", <<"&#x129;">>>>,
    <<"&#x12A;", <<"&#x12B;">>>>, <<"&#x12C;", <<"&#x12D;">>>>,
    <<"&#x12E;", <<"&#x12F;">>>>, <<"&#x130;", <<"i", "&#x307;">>>>,
    <<"&#x132;", <<"&#x133;">>>>, <<"&#x134;", <<"&#x135;">>>>,
    <<"&#x136;", <<"&#x137;">>>>, <<"&#x139;", <<"&#x13A;">>>>,
    <<"&#x13B;", <<"&#x13C;">>>>, <<"&#x13D;", <<"&#x13E;">>>>,
    <<"&#x13F;", <<"&#x140;">>>>, <<"&#x141;", <<"&#x142;">>>>,
    <<"&#x143;", <<"&#x144;">>>>, <<"&#x145;", <<"&#x146;">>>>,
    <<"&#x147;", <<"&#x148;">>>>, <<"&#x14A;", <<"&#x14B;">>>>,
    <<"&#x14C;", <<"&#x14D;">>>>, <<"&#x14E;", <<"&#x14F;">>>>,
    <<"&#x150;", <<"&#x151;">>>>, <<"&#x152;", <<"&#x153;">>>>,
    <<"&#x154;", <<"&#x155;">>>>, <<"&#x156;", <<"&#x157;">>>>,
    <<"&#x158;", <<"&#x159;">>>>, <<"&#x15A;", <<"&#x15B;">>>>,
    <<"&#x15C;", <<"&#x15D;">>>>, <<"&#x15E;", <<"&#x15F;">>>>,
    <<"&#x160;", <<"&#x161;">>>>, <<"&#x162;", <<"&#x163;">>>>,
    <<"&#x164;", <<"&#x165;">>>>, <<"&#x166;", <<"&#x167;">>>>,
    <<"&#x168;", <<"&#x169;">>>>, <<"&#x16A;", <<"&#x16B;">>>>,
    <<"&#x16C;", <<"&#x16D;">>>>, <<"&#x16E;", <<"&#x16F;">>>>,
    <<"&#x170;", <<"&#x171;">>>>, <<"&#x172;", <<"&#x173;">>>>,
    <<"&#x174;", <<"&#x175;">>>>, <<"&#x176;", <<"&#x177;">>>>,
    <<"&#x178;", <<"&#xFF;">>>>, <<"&#x179;", <<"&#x17A;">>>>,
    <<"&#x17B;", <<"&#x17C;">>>>, <<"&#x17D;", <<"&#x17E;">>>>,
    <<"&#x181;", <<"&#x253;">>>>, <<"&#x182;", <<"&#x183;">>>>,
    <<"&#x184;", <<"&#x185;">>>>, <<"&#x186;", <<"&#x254;">>>>,
    <<"&#x187;", <<"&#x188;">>>>, <<"&#x189;", <<"&#x256;">>>>,
    <<"&#x18A;", <<"&#x257;">>>>, <<"&#x18B;", <<"&#x18C;">>>>,
    <<"&#x18E;", <<"&#x1DD;">>>>, <<"&#x18F;", <<"&#x259;">>>>,
    <<"&#x190;", <<"&#x25B;">>>>, <<"&#x191;", <<"&#x192;">>>>,
    <<"&#x193;", <<"&#x260;">>>>, <<"&#x194;", <<"&#x263;">>>>,
    <<"&#x196;", <<"&#x269;">>>>, <<"&#x197;", <<"&#x268;">>>>,
    <<"&#x198;", <<"&#x199;">>>>, <<"&#x19C;", <<"&#x26F;">>>>,
    <<"&#x19D;", <<"&#x272;">>>>, <<"&#x19F;", <<"&#x275;">>>>,
    <<"&#x1A0;", <<"&#x1A1;">>>>, <<"&#x1A2;", <<"&#x1A3;">>>>,
    <<"&#x1A4;", <<"&#x1A5;">>>>, <<"&#x1A6;", <<"&#x280;">>>>,
    <<"&#x1A7;", <<"&#x1A8;">>>>, <<"&#x1A9;", <<"&#x283;">>>>,
    <<"&#x1AC;", <<"&#x1AD;">>>>, <<"&#x1AE;", <<"&#x288;">>>>,
    <<"&#x1AF;", <<"&#x1B0;">>>>, <<"&#x1B1;", <<"&#x28A;">>>>,
    <<"&#x1B2;", <<"&#x28B;">>>>, <<"&#x1B3;", <<"&#x1B4;">>>>,
    <<"&#x1B5;", <<"&#x1B6;">>>>, <<"&#x1B7;", <<"&#x292;">>>>,
    <<"&#x1B8;", <<"&#x1B9;">>>>, <<"&#x1BC;", <<"&#x1BD;">>>>,
    <<"&#x1C4;", <<"&#x1C6;">>>>, <<"&#x1C5;", <<"&#x1C6;">>>>,
    <<"&#x1C7;", <<"&#x1C9;">>>>, <<"&#x1C8;", <<"&#x1C9;">>>>,
    <<"&#x1CA;", <<"&#x1CC;">>>>, <<"&#x1CB;", <<"&#x1CC;">>>>,
    <<"&#x1CD;", <<"&#x1CE;">>>>, <<"&#x1CF;", <<"&#x1D0;">>>>,
    <<"&#x1D1;", <<"&#x1D2;">>>>, <<"&#x1D3;", <<"&#x1D4;">>>>,
    <<"&#x1D5;", <<"&#x1D6;">>>>, <<"&#x1D7;", <<"&#x1D8;">>>>,
    <<"&#x1D9;", <<"&#x1DA;">>>>, <<"&#x1DB;", <<"&#x1DC;">>>>,
    <<"&#x1DE;", <<"&#x1DF;">>>>, <<"&#x1E0;", <<"&#x1E1;">>>>,
    <<"&#x1E2;", <<"&#x1E3;">>>>, <<"&#x1E4;", <<"&#x1E5;">>>>,
    <<"&#x1E6;", <<"&#x1E7;">>>>, <<"&#x1E8;", <<"&#x1E9;">>>>,
    <<"&#x1EA;", <<"&#x1EB;">>>>, <<"&#x1EC;", <<"&#x1ED;">>>>,
    <<"&#x1EE;", <<"&#x1EF;">>>>, <<"&#x1F1;", <<"&#x1F3;">>>>,
    <<"&#x1F2;", <<"&#x1F3;">>>>, <<"&#x1F4;", <<"&#x1F5;">>>>,
    <<"&#x1F6;", <<"&#x195;">>>>, <<"&#x1F7;", <<"&#x1BF;">>>>,
    <<"&#x1F8;", <<"&#x1F9;">>>>, <<"&#x1FA;", <<"&#x1FB;">>>>,
    <<"&#x1FC;", <<"&#x1FD;">>>>, <<"&#x1FE;", <<"&#x1FF;">>>>,
    <<"&#x200;", <<"&#x201;">>>>, <<"&#x202;", <<"&#x203;">>>>,
    <<"&#x204;", <<"&#x205;">>>>, <<"&#x206;", <<"&#x207;">>>>,
    <<"&#x208;", <<"&#x209;">>>>, <<"&#x20A;", <<"&#x20B;">>>>,
    <<"&#x20C;", <<"&#x20D;">>>>, <<"&#x20E;", <<"&#x20F;">>>>,
    <<"&#x210;", <<"&#x211;">>>>, <<"&#x212;", <<"&#x213;">>>>,
    <<"&#x214;", <<"&#x215;">>>>, <<"&#x216;", <<"&#x217;">>>>,
    <<"&#x218;", <<"&#x219;">>>>, <<"&#x21A;", <<"&#x21B;">>>>,
    <<"&#x21C;", <<"&#x21D;">>>>, <<"&#x21E;", <<"&#x21F;">>>>,
    <<"&#x220;", <<"&#x19E;">>>>, <<"&#x222;", <<"&#x223;">>>>,
    <<"&#x224;", <<"&#x225;">>>>, <<"&#x226;", <<"&#x227;">>>>,
    <<"&#x228;", <<"&#x229;">>>>, <<"&#x22A;", <<"&#x22B;">>>>,
    <<"&#x22C;", <<"&#x22D;">>>>, <<"&#x22E;", <<"&#x22F;">>>>,
    <<"&#x230;", <<"&#x231;">>>>, <<"&#x232;", <<"&#x233;">>>>,
    <<"&#x23A;", <<"&#x2C65;">>>>, <<"&#x23B;", <<"&#x23C;">>>>,
    <<"&#x23D;", <<"&#x19A;">>>>, <<"&#x23E;", <<"&#x2C66;">>>>,
    <<"&#x241;", <<"&#x242;">>>>, <<"&#x243;", <<"&#x180;">>>>,
    <<"&#x244;", <<"&#x289;">>>>, <<"&#x245;", <<"&#x28C;">>>>,
    <<"&#x246;", <<"&#x247;">>>>, <<"&#x248;", <<"&#x249;">>>>,
    <<"&#x24A;", <<"&#x24B;">>>>, <<"&#x24C;", <<"&#x24D;">>>>,
    <<"&#x24E;", <<"&#x24F;">>>>, <<"&#x370;", <<"&#x371;">>>>,
    <<"&#x372;", <<"&#x373;">>>>, <<"&#x376;", <<"&#x377;">>>>,
    <<"&#x37F;", <<"&#x3F3;">>>>, <<"&#x386;", <<"&#x3AC;">>>>,
    <<"&#x388;", <<"&#x3AD;">>>>, <<"&#x389;", <<"&#x3AE;">>>>,
    <<"&#x38A;", <<"&#x3AF;">>>>, <<"&#x38C;", <<"&#x3CC;">>>>,
    <<"&#x38E;", <<"&#x3CD;">>>>, <<"&#x38F;", <<"&#x3CE;">>>>,
    <<"&#x391;", <<"&#x3B1;">>>>, <<"&#x392;", <<"&#x3B2;">>>>,
    <<"&#x393;", <<"&#x3B3;">>>>, <<"&#x394;", <<"&#x3B4;">>>>,
    <<"&#x395;", <<"&#x3B5;">>>>, <<"&#x396;", <<"&#x3B6;">>>>,
    <<"&#x397;", <<"&#x3B7;">>>>, <<"&#x398;", <<"&#x3B8;">>>>,
    <<"&#x399;", <<"&#x3B9;">>>>, <<"&#x39A;", <<"&#x3BA;">>>>,
    <<"&#x39B;", <<"&#x3BB;">>>>, <<"&#x39C;", <<"&#x3BC;">>>>,
    <<"&#x39D;", <<"&#x3BD;">>>>, <<"&#x39E;", <<"&#x3BE;">>>>,
    <<"&#x39F;", <<"&#x3BF;">>>>, <<"&#x3A0;", <<"&#x3C0;">>>>,
    <<"&#x3A1;", <<"&#x3C1;">>>>, <<"&#x3A3;", <<"&#x3C3;">>>>,
    <<"&#x3A4;", <<"&#x3C4;">>>>, <<"&#x3A5;", <<"&#x3C5;">>>>,
    <<"&#x3A6;", <<"&#x3C6;">>>>, <<"&#x3A7;", <<"&#x3C7;">>>>,
    <<"&#x3A8;", <<"&#x3C8;">>>>, <<"&#x3A9;", <<"&#x3C9;">>>>,
    <<"&#x3AA;", <<"&#x3CA;">>>>, <<"&#x3AB;", <<"&#x3CB;">>>>,
    <<"&#x3CF;", <<"&#x3D7;">>>>, <<"&#x3D8;", <<"&#x3D9;">>>>,
    <<"&#x3DA;", <<"&#x3DB;">>>>, <<"&#x3DC;", <<"&#x3DD;">>>>,
    <<"&#x3DE;", <<"&#x3DF;">>>>, <<"&#x3E0;", <<"&#x3E1;">>>>,
    <<"&#x3E2;", <<"&#x3E3;">>>>, <<"&#x3E4;", <<"&#x3E5;">>>>,
    <<"&#x3E6;", <<"&#x3E7;">>>>, <<"&#x3E8;", <<"&#x3E9;">>>>,
    <<"&#x3EA;", <<"&#x3EB;">>>>, <<"&#x3EC;", <<"&#x3ED;">>>>,
    <<"&#x3EE;", <<"&#x3EF;">>>>, <<"&#x3F4;", <<"&#x3B8;">>>>,
    <<"&#x3F7;", <<"&#x3F8;">>>>, <<"&#x3F9;", <<"&#x3F2;">>>>,
    <<"&#x3FA;", <<"&#x3FB;">>>>, <<"&#x3FD;", <<"&#x37B;">>>>,
    <<"&#x3FE;", <<"&#x37C;">>>>, <<"&#x3FF;", <<"&#x37D;">>>>,
    <<"&#x400;", <<"&#x450;">>>>, <<"&#x401;", <<"&#x451;">>>>,
    <<"&#x402;", <<"&#x452;">>>>, <<"&#x403;", <<"&#x453;">>>>,
    <<"&#x404;", <<"&#x454;">>>>, <<"&#x405;", <<"&#x455;">>>>,
    <<"&#x406;", <<"&#x456;">>>>, <<"&#x407;", <<"&#x457;">>>>,
    <<"&#x408;", <<"&#x458;">>>>, <<"&#x409;", <<"&#x459;">>>>,
    <<"&#x40A;", <<"&#x45A;">>>>, <<"&#x40B;", <<"&#x45B;">>>>,
    <<"&#x40C;", <<"&#x45C;">>>>, <<"&#x40D;", <<"&#x45D;">>>>,
    <<"&#x40E;", <<"&#x45E;">>>>, <<"&#x40F;", <<"&#x45F;">>>>,
    <<"&#x410;", <<"&#x430;">>>>, <<"&#x411;", <<"&#x431;">>>>,
    <<"&#x412;", <<"&#x432;">>>>, <<"&#x413;", <<"&#x433;">>>>,
    <<"&#x414;", <<"&#x434;">>>>, <<"&#x415;", <<"&#x435;">>>>,
    <<"&#x416;", <<"&#x436;">>>>, <<"&#x417;", <<"&#x437;">>>>,
    <<"&#x418;", <<"&#x438;">>>>, <<"&#x419;", <<"&#x439;">>>>,
    <<"&#x41A;", <<"&#x43A;">>>>, <<"&#x41B;", <<"&#x43B;">>>>,
    <<"&#x41C;", <<"&#x43C;">>>>, <<"&#x41D;", <<"&#x43D;">>>>,
    <<"&#x41E;", <<"&#x43E;">>>>, <<"&#x41F;", <<"&#x43F;">>>>,
    <<"&#x420;", <<"&#x440;">>>>, <<"&#x421;", <<"&#x441;">>>>,
    <<"&#x422;", <<"&#x442;">>>>, <<"&#x423;", <<"&#x443;">>>>,
    <<"&#x424;", <<"&#x444;">>>>, <<"&#x425;", <<"&#x445;">>>>,
    <<"&#x426;", <<"&#x446;">>>>, <<"&#x427;", <<"&#x447;">>>>,
    <<"&#x428;", <<"&#x448;">>>>, <<"&#x429;", <<"&#x449;">>>>,
    <<"&#x42A;", <<"&#x44A;">>>>, <<"&#x42B;", <<"&#x44B;">>>>,
    <<"&#x42C;", <<"&#x44C;">>>>, <<"&#x42D;", <<"&#x44D;">>>>,
    <<"&#x42E;", <<"&#x44E;">>>>, <<"&#x42F;", <<"&#x44F;">>>>,
    <<"&#x460;", <<"&#x461;">>>>, <<"&#x462;", <<"&#x463;">>>>,
    <<"&#x464;", <<"&#x465;">>>>, <<"&#x466;", <<"&#x467;">>>>,
    <<"&#x468;", <<"&#x469;">>>>, <<"&#x46A;", <<"&#x46B;">>>>,
    <<"&#x46C;", <<"&#x46D;">>>>, <<"&#x46E;", <<"&#x46F;">>>>,
    <<"&#x470;", <<"&#x471;">>>>, <<"&#x472;", <<"&#x473;">>>>,
    <<"&#x474;", <<"&#x475;">>>>, <<"&#x476;", <<"&#x477;">>>>,
    <<"&#x478;", <<"&#x479;">>>>, <<"&#x47A;", <<"&#x47B;">>>>,
    <<"&#x47C;", <<"&#x47D;">>>>, <<"&#x47E;", <<"&#x47F;">>>>,
    <<"&#x480;", <<"&#x481;">>>>, <<"&#x48A;", <<"&#x48B;">>>>,
    <<"&#x48C;", <<"&#x48D;">>>>, <<"&#x48E;", <<"&#x48F;">>>>,
    <<"&#x490;", <<"&#x491;">>>>, <<"&#x492;", <<"&#x493;">>>>,
    <<"&#x494;", <<"&#x495;">>>>, <<"&#x496;", <<"&#x497;">>>>,
    <<"&#x498;", <<"&#x499;">>>>, <<"&#x49A;", <<"&#x49B;">>>>,
    <<"&#x49C;", <<"&#x49D;">>>>, <<"&#x49E;", <<"&#x49F;">>>>,
    <<"&#x4A0;", <<"&#x4A1;">>>>, <<"&#x4A2;", <<"&#x4A3;">>>>,
    <<"&#x4A4;", <<"&#x4A5;">>>>, <<"&#x4A6;", <<"&#x4A7;">>>>,
    <<"&#x4A8;", <<"&#x4A9;">>>>, <<"&#x4AA;", <<"&#x4AB;">>>>,
    <<"&#x4AC;", <<"&#x4AD;">>>>, <<"&#x4AE;", <<"&#x4AF;">>>>,
    <<"&#x4B0;", <<"&#x4B1;">>>>, <<"&#x4B2;", <<"&#x4B3;">>>>,
    <<"&#x4B4;", <<"&#x4B5;">>>>, <<"&#x4B6;", <<"&#x4B7;">>>>,
    <<"&#x4B8;", <<"&#x4B9;">>>>, <<"&#x4BA;", <<"&#x4BB;">>>>,
    <<"&#x4BC;", <<"&#x4BD;">>>>, <<"&#x4BE;", <<"&#x4BF;">>>>,
    <<"&#x4C0;", <<"&#x4CF;">>>>, <<"&#x4C1;", <<"&#x4C2;">>>>,
    <<"&#x4C3;", <<"&#x4C4;">>>>, <<"&#x4C5;", <<"&#x4C6;">>>>,
    <<"&#x4C7;", <<"&#x4C8;">>>>, <<"&#x4C9;", <<"&#x4CA;">>>>,
    <<"&#x4CB;", <<"&#x4CC;">>>>, <<"&#x4CD;", <<"&#x4CE;">>>>,
    <<"&#x4D0;", <<"&#x4D1;">>>>, <<"&#x4D2;", <<"&#x4D3;">>>>,
    <<"&#x4D4;", <<"&#x4D5;">>>>, <<"&#x4D6;", <<"&#x4D7;">>>>,
    <<"&#x4D8;", <<"&#x4D9;">>>>, <<"&#x4DA;", <<"&#x4DB;">>>>,
    <<"&#x4DC;", <<"&#x4DD;">>>>, <<"&#x4DE;", <<"&#x4DF;">>>>,
    <<"&#x4E0;", <<"&#x4E1;">>>>, <<"&#x4E2;", <<"&#x4E3;">>>>,
    <<"&#x4E4;", <<"&#x4E5;">>>>, <<"&#x4E6;", <<"&#x4E7;">>>>,
    <<"&#x4E8;", <<"&#x4E9;">>>>, <<"&#x4EA;", <<"&#x4EB;">>>>,
    <<"&#x4EC;", <<"&#x4ED;">>>>, <<"&#x4EE;", <<"&#x4EF;">>>>,
    <<"&#x4F0;", <<"&#x4F1;">>>>, <<"&#x4F2;", <<"&#x4F3;">>>>,
    <<"&#x4F4;", <<"&#x4F5;">>>>, <<"&#x4F6;", <<"&#x4F7;">>>>,
    <<"&#x4F8;", <<"&#x4F9;">>>>, <<"&#x4FA;", <<"&#x4FB;">>>>,
    <<"&#x4FC;", <<"&#x4FD;">>>>, <<"&#x4FE;", <<"&#x4FF;">>>>,
    <<"&#x500;", <<"&#x501;">>>>, <<"&#x502;", <<"&#x503;">>>>,
    <<"&#x504;", <<"&#x505;">>>>, <<"&#x506;", <<"&#x507;">>>>,
    <<"&#x508;", <<"&#x509;">>>>, <<"&#x50A;", <<"&#x50B;">>>>,
    <<"&#x50C;", <<"&#x50D;">>>>, <<"&#x50E;", <<"&#x50F;">>>>,
    <<"&#x510;", <<"&#x511;">>>>, <<"&#x512;", <<"&#x513;">>>>,
    <<"&#x514;", <<"&#x515;">>>>, <<"&#x516;", <<"&#x517;">>>>,
    <<"&#x518;", <<"&#x519;">>>>, <<"&#x51A;", <<"&#x51B;">>>>,
    <<"&#x51C;", <<"&#x51D;">>>>, <<"&#x51E;", <<"&#x51F;">>>>,
    <<"&#x520;", <<"&#x521;">>>>, <<"&#x522;", <<"&#x523;">>>>,
    <<"&#x524;", <<"&#x525;">>>>, <<"&#x526;", <<"&#x527;">>>>,
    <<"&#x528;", <<"&#x529;">>>>, <<"&#x52A;", <<"&#x52B;">>>>,
    <<"&#x52C;", <<"&#x52D;">>>>, <<"&#x52E;", <<"&#x52F;">>>>,
    <<"&#x531;", <<"&#x561;">>>>, <<"&#x532;", <<"&#x562;">>>>,
    <<"&#x533;", <<"&#x563;">>>>, <<"&#x534;", <<"&#x564;">>>>,
    <<"&#x535;", <<"&#x565;">>>>, <<"&#x536;", <<"&#x566;">>>>,
    <<"&#x537;", <<"&#x567;">>>>, <<"&#x538;", <<"&#x568;">>>>,
    <<"&#x539;", <<"&#x569;">>>>, <<"&#x53A;", <<"&#x56A;">>>>,
    <<"&#x53B;", <<"&#x56B;">>>>, <<"&#x53C;", <<"&#x56C;">>>>,
    <<"&#x53D;", <<"&#x56D;">>>>, <<"&#x53E;", <<"&#x56E;">>>>,
    <<"&#x53F;", <<"&#x56F;">>>>, <<"&#x540;", <<"&#x570;">>>>,
    <<"&#x541;", <<"&#x571;">>>>, <<"&#x542;", <<"&#x572;">>>>,
    <<"&#x543;", <<"&#x573;">>>>, <<"&#x544;", <<"&#x574;">>>>,
    <<"&#x545;", <<"&#x575;">>>>, <<"&#x546;", <<"&#x576;">>>>,
    <<"&#x547;", <<"&#x577;">>>>, <<"&#x548;", <<"&#x578;">>>>,
    <<"&#x549;", <<"&#x579;">>>>, <<"&#x54A;", <<"&#x57A;">>>>,
    <<"&#x54B;", <<"&#x57B;">>>>, <<"&#x54C;", <<"&#x57C;">>>>,
    <<"&#x54D;", <<"&#x57D;">>>>, <<"&#x54E;", <<"&#x57E;">>>>,
    <<"&#x54F;", <<"&#x57F;">>>>, <<"&#x550;", <<"&#x580;">>>>,
    <<"&#x551;", <<"&#x581;">>>>, <<"&#x552;", <<"&#x582;">>>>,
    <<"&#x553;", <<"&#x583;">>>>, <<"&#x554;", <<"&#x584;">>>>,
    <<"&#x555;", <<"&#x585;">>>>, <<"&#x556;", <<"&#x586;">>>>,
    <<"&#x10A0;", <<"&#x2D00;">>>>, <<"&#x10A1;", <<"&#x2D01;">>>>,
    <<"&#x10A2;", <<"&#x2D02;">>>>, <<"&#x10A3;", <<"&#x2D03;">>>>,
    <<"&#x10A4;", <<"&#x2D04;">>>>, <<"&#x10A5;", <<"&#x2D05;">>>>,
    <<"&#x10A6;", <<"&#x2D06;">>>>, <<"&#x10A7;", <<"&#x2D07;">>>>,
    <<"&#x10A8;", <<"&#x2D08;">>>>, <<"&#x10A9;", <<"&#x2D09;">>>>,
    <<"&#x10AA;", <<"&#x2D0A;">>>>, <<"&#x10AB;", <<"&#x2D0B;">>>>,
    <<"&#x10AC;", <<"&#x2D0C;">>>>, <<"&#x10AD;", <<"&#x2D0D;">>>>,
    <<"&#x10AE;", <<"&#x2D0E;">>>>, <<"&#x10AF;", <<"&#x2D0F;">>>>,
    <<"&#x10B0;", <<"&#x2D10;">>>>, <<"&#x10B1;", <<"&#x2D11;">>>>,
    <<"&#x10B2;", <<"&#x2D12;">>>>, <<"&#x10B3;", <<"&#x2D13;">>>>,
    <<"&#x10B4;", <<"&#x2D14;">>>>, <<"&#x10B5;", <<"&#x2D15;">>>>,
    <<"&#x10B6;", <<"&#x2D16;">>>>, <<"&#x10B7;", <<"&#x2D17;">>>>,
    <<"&#x10B8;", <<"&#x2D18;">>>>, <<"&#x10B9;", <<"&#x2D19;">>>>,
    <<"&#x10BA;", <<"&#x2D1A;">>>>, <<"&#x10BB;", <<"&#x2D1B;">>>>,
    <<"&#x10BC;", <<"&#x2D1C;">>>>, <<"&#x10BD;", <<"&#x2D1D;">>>>,
    <<"&#x10BE;", <<"&#x2D1E;">>>>, <<"&#x10BF;", <<"&#x2D1F;">>>>,
    <<"&#x10C0;", <<"&#x2D20;">>>>, <<"&#x10C1;", <<"&#x2D21;">>>>,
    <<"&#x10C2;", <<"&#x2D22;">>>>, <<"&#x10C3;", <<"&#x2D23;">>>>,
    <<"&#x10C4;", <<"&#x2D24;">>>>, <<"&#x10C5;", <<"&#x2D25;">>>>,
    <<"&#x10C7;", <<"&#x2D27;">>>>, <<"&#x10CD;", <<"&#x2D2D;">>>>,
    <<"&#x13A0;", <<"&#xAB70;">>>>, <<"&#x13A1;", <<"&#xAB71;">>>>,
    <<"&#x13A2;", <<"&#xAB72;">>>>, <<"&#x13A3;", <<"&#xAB73;">>>>,
    <<"&#x13A4;", <<"&#xAB74;">>>>, <<"&#x13A5;", <<"&#xAB75;">>>>,
    <<"&#x13A6;", <<"&#xAB76;">>>>, <<"&#x13A7;", <<"&#xAB77;">>>>,
    <<"&#x13A8;", <<"&#xAB78;">>>>, <<"&#x13A9;", <<"&#xAB79;">>>>,
    <<"&#x13AA;", <<"&#xAB7A;">>>>, <<"&#x13AB;", <<"&#xAB7B;">>>>,
    <<"&#x13AC;", <<"&#xAB7C;">>>>, <<"&#x13AD;", <<"&#xAB7D;">>>>,
    <<"&#x13AE;", <<"&#xAB7E;">>>>, <<"&#x13AF;", <<"&#xAB7F;">>>>,
    <<"&#x13B0;", <<"&#xAB80;">>>>, <<"&#x13B1;", <<"&#xAB81;">>>>,
    <<"&#x13B2;", <<"&#xAB82;">>>>, <<"&#x13B3;", <<"&#xAB83;">>>>,
    <<"&#x13B4;", <<"&#xAB84;">>>>, <<"&#x13B5;", <<"&#xAB85;">>>>,
    <<"&#x13B6;", <<"&#xAB86;">>>>, <<"&#x13B7;", <<"&#xAB87;">>>>,
    <<"&#x13B8;", <<"&#xAB88;">>>>, <<"&#x13B9;", <<"&#xAB89;">>>>,
    <<"&#x13BA;", <<"&#xAB8A;">>>>, <<"&#x13BB;", <<"&#xAB8B;">>>>,
    <<"&#x13BC;", <<"&#xAB8C;">>>>, <<"&#x13BD;", <<"&#xAB8D;">>>>,
    <<"&#x13BE;", <<"&#xAB8E;">>>>, <<"&#x13BF;", <<"&#xAB8F;">>>>,
    <<"&#x13C0;", <<"&#xAB90;">>>>, <<"&#x13C1;", <<"&#xAB91;">>>>,
    <<"&#x13C2;", <<"&#xAB92;">>>>, <<"&#x13C3;", <<"&#xAB93;">>>>,
    <<"&#x13C4;", <<"&#xAB94;">>>>, <<"&#x13C5;", <<"&#xAB95;">>>>,
    <<"&#x13C6;", <<"&#xAB96;">>>>, <<"&#x13C7;", <<"&#xAB97;">>>>,
    <<"&#x13C8;", <<"&#xAB98;">>>>, <<"&#x13C9;", <<"&#xAB99;">>>>,
    <<"&#x13CA;", <<"&#xAB9A;">>>>, <<"&#x13CB;", <<"&#xAB9B;">>>>,
    <<"&#x13CC;", <<"&#xAB9C;">>>>, <<"&#x13CD;", <<"&#xAB9D;">>>>,
    <<"&#x13CE;", <<"&#xAB9E;">>>>, <<"&#x13CF;", <<"&#xAB9F;">>>>,
    <<"&#x13D0;", <<"&#xABA0;">>>>, <<"&#x13D1;", <<"&#xABA1;">>>>,
    <<"&#x13D2;", <<"&#xABA2;">>>>, <<"&#x13D3;", <<"&#xABA3;">>>>,
    <<"&#x13D4;", <<"&#xABA4;">>>>, <<"&#x13D5;", <<"&#xABA5;">>>>,
    <<"&#x13D6;", <<"&#xABA6;">>>>, <<"&#x13D7;", <<"&#xABA7;">>>>,
    <<"&#x13D8;", <<"&#xABA8;">>>>, <<"&#x13D9;", <<"&#xABA9;">>>>,
    <<"&#x13DA;", <<"&#xABAA;">>>>, <<"&#x13DB;", <<"&#xABAB;">>>>,
    <<"&#x13DC;", <<"&#xABAC;">>>>, <<"&#x13DD;", <<"&#xABAD;">>>>,
    <<"&#x13DE;", <<"&#xABAE;">>>>, <<"&#x13DF;", <<"&#xABAF;">>>>,
    <<"&#x13E0;", <<"&#xABB0;">>>>, <<"&#x13E1;", <<"&#xABB1;">>>>,
    <<"&#x13E2;", <<"&#xABB2;">>>>, <<"&#x13E3;", <<"&#xABB3;">>>>,
    <<"&#x13E4;", <<"&#xABB4;">>>>, <<"&#x13E5;", <<"&#xABB5;">>>>,
    <<"&#x13E6;", <<"&#xABB6;">>>>, <<"&#x13E7;", <<"&#xABB7;">>>>,
    <<"&#x13E8;", <<"&#xABB8;">>>>, <<"&#x13E9;", <<"&#xABB9;">>>>,
    <<"&#x13EA;", <<"&#xABBA;">>>>, <<"&#x13EB;", <<"&#xABBB;">>>>,
    <<"&#x13EC;", <<"&#xABBC;">>>>, <<"&#x13ED;", <<"&#xABBD;">>>>,
    <<"&#x13EE;", <<"&#xABBE;">>>>, <<"&#x13EF;", <<"&#xABBF;">>>>,
    <<"&#x13F0;", <<"&#x13F8;">>>>, <<"&#x13F1;", <<"&#x13F9;">>>>,
    <<"&#x13F2;", <<"&#x13FA;">>>>, <<"&#x13F3;", <<"&#x13FB;">>>>,
    <<"&#x13F4;", <<"&#x13FC;">>>>, <<"&#x13F5;", <<"&#x13FD;">>>>,
    <<"&#x1C90;", <<"&#x10D0;">>>>, <<"&#x1C91;", <<"&#x10D1;">>>>,
    <<"&#x1C92;", <<"&#x10D2;">>>>, <<"&#x1C93;", <<"&#x10D3;">>>>,
    <<"&#x1C94;", <<"&#x10D4;">>>>, <<"&#x1C95;", <<"&#x10D5;">>>>,
    <<"&#x1C96;", <<"&#x10D6;">>>>, <<"&#x1C97;", <<"&#x10D7;">>>>,
    <<"&#x1C98;", <<"&#x10D8;">>>>, <<"&#x1C99;", <<"&#x10D9;">>>>,
    <<"&#x1C9A;", <<"&#x10DA;">>>>, <<"&#x1C9B;", <<"&#x10DB;">>>>,
    <<"&#x1C9C;", <<"&#x10DC;">>>>, <<"&#x1C9D;", <<"&#x10DD;">>>>,
    <<"&#x1C9E;", <<"&#x10DE;">>>>, <<"&#x1C9F;", <<"&#x10DF;">>>>,
    <<"&#x1CA0;", <<"&#x10E0;">>>>, <<"&#x1CA1;", <<"&#x10E1;">>>>,
    <<"&#x1CA2;", <<"&#x10E2;">>>>, <<"&#x1CA3;", <<"&#x10E3;">>>>,
    <<"&#x1CA4;", <<"&#x10E4;">>>>, <<"&#x1CA5;", <<"&#x10E5;">>>>,
    <<"&#x1CA6;", <<"&#x10E6;">>>>, <<"&#x1CA7;", <<"&#x10E7;">>>>,
    <<"&#x1CA8;", <<"&#x10E8;">>>>, <<"&#x1CA9;", <<"&#x10E9;">>>>,
    <<"&#x1CAA;", <<"&#x10EA;">>>>, <<"&#x1CAB;", <<"&#x10EB;">>>>,
    <<"&#x1CAC;", <<"&#x10EC;">>>>, <<"&#x1CAD;", <<"&#x10ED;">>>>,
    <<"&#x1CAE;", <<"&#x10EE;">>>>, <<"&#x1CAF;", <<"&#x10EF;">>>>,
    <<"&#x1CB0;", <<"&#x10F0;">>>>, <<"&#x1CB1;", <<"&#x10F1;">>>>,
    <<"&#x1CB2;", <<"&#x10F2;">>>>, <<"&#x1CB3;", <<"&#x10F3;">>>>,
    <<"&#x1CB4;", <<"&#x10F4;">>>>, <<"&#x1CB5;", <<"&#x10F5;">>>>,
    <<"&#x1CB6;", <<"&#x10F6;">>>>, <<"&#x1CB7;", <<"&#x10F7;">>>>,
    <<"&#x1CB8;", <<"&#x10F8;">>>>, <<"&#x1CB9;", <<"&#x10F9;">>>>,
    <<"&#x1CBA;", <<"&#x10FA;">>>>, <<"&#x1CBD;", <<"&#x10FD;">>>>,
    <<"&#x1CBE;", <<"&#x10FE;">>>>, <<"&#x1CBF;", <<"&#x10FF;">>>>,
    <<"&#x1E00;", <<"&#x1E01;">>>>, <<"&#x1E02;", <<"&#x1E03;">>>>,
    <<"&#x1E04;", <<"&#x1E05;">>>>, <<"&#x1E06;", <<"&#x1E07;">>>>,
    <<"&#x1E08;", <<"&#x1E09;">>>>, <<"&#x1E0A;", <<"&#x1E0B;">>>>,
    <<"&#x1E0C;", <<"&#x1E0D;">>>>, <<"&#x1E0E;", <<"&#x1E0F;">>>>,
    <<"&#x1E10;", <<"&#x1E11;">>>>, <<"&#x1E12;", <<"&#x1E13;">>>>,
    <<"&#x1E14;", <<"&#x1E15;">>>>, <<"&#x1E16;", <<"&#x1E17;">>>>,
    <<"&#x1E18;", <<"&#x1E19;">>>>, <<"&#x1E1A;", <<"&#x1E1B;">>>>,
    <<"&#x1E1C;", <<"&#x1E1D;">>>>, <<"&#x1E1E;", <<"&#x1E1F;">>>>,
    <<"&#x1E20;", <<"&#x1E21;">>>>, <<"&#x1E22;", <<"&#x1E23;">>>>,
    <<"&#x1E24;", <<"&#x1E25;">>>>, <<"&#x1E26;", <<"&#x1E27;">>>>,
    <<"&#x1E28;", <<"&#x1E29;">>>>, <<"&#x1E2A;", <<"&#x1E2B;">>>>,
    <<"&#x1E2C;", <<"&#x1E2D;">>>>, <<"&#x1E2E;", <<"&#x1E2F;">>>>,
    <<"&#x1E30;", <<"&#x1E31;">>>>, <<"&#x1E32;", <<"&#x1E33;">>>>,
    <<"&#x1E34;", <<"&#x1E35;">>>>, <<"&#x1E36;", <<"&#x1E37;">>>>,
    <<"&#x1E38;", <<"&#x1E39;">>>>, <<"&#x1E3A;", <<"&#x1E3B;">>>>,
    <<"&#x1E3C;", <<"&#x1E3D;">>>>, <<"&#x1E3E;", <<"&#x1E3F;">>>>,
    <<"&#x1E40;", <<"&#x1E41;">>>>, <<"&#x1E42;", <<"&#x1E43;">>>>,
    <<"&#x1E44;", <<"&#x1E45;">>>>, <<"&#x1E46;", <<"&#x1E47;">>>>,
    <<"&#x1E48;", <<"&#x1E49;">>>>, <<"&#x1E4A;", <<"&#x1E4B;">>>>,
    <<"&#x1E4C;", <<"&#x1E4D;">>>>, <<"&#x1E4E;", <<"&#x1E4F;">>>>,
    <<"&#x1E50;", <<"&#x1E51;">>>>, <<"&#x1E52;", <<"&#x1E53;">>>>,
    <<"&#x1E54;", <<"&#x1E55;">>>>, <<"&#x1E56;", <<"&#x1E57;">>>>,
    <<"&#x1E58;", <<"&#x1E59;">>>>, <<"&#x1E5A;", <<"&#x1E5B;">>>>,
    <<"&#x1E5C;", <<"&#x1E5D;">>>>, <<"&#x1E5E;", <<"&#x1E5F;">>>>,
    <<"&#x1E60;", <<"&#x1E61;">>>>, <<"&#x1E62;", <<"&#x1E63;">>>>,
    <<"&#x1E64;", <<"&#x1E65;">>>>, <<"&#x1E66;", <<"&#x1E67;">>>>,
    <<"&#x1E68;", <<"&#x1E69;">>>>, <<"&#x1E6A;", <<"&#x1E6B;">>>>,
    <<"&#x1E6C;", <<"&#x1E6D;">>>>, <<"&#x1E6E;", <<"&#x1E6F;">>>>,
    <<"&#x1E70;", <<"&#x1E71;">>>>, <<"&#x1E72;", <<"&#x1E73;">>>>,
    <<"&#x1E74;", <<"&#x1E75;">>>>, <<"&#x1E76;", <<"&#x1E77;">>>>,
    <<"&#x1E78;", <<"&#x1E79;">>>>, <<"&#x1E7A;", <<"&#x1E7B;">>>>,
    <<"&#x1E7C;", <<"&#x1E7D;">>>>, <<"&#x1E7E;", <<"&#x1E7F;">>>>,
    <<"&#x1E80;", <<"&#x1E81;">>>>, <<"&#x1E82;", <<"&#x1E83;">>>>,
    <<"&#x1E84;", <<"&#x1E85;">>>>, <<"&#x1E86;", <<"&#x1E87;">>>>,
    <<"&#x1E88;", <<"&#x1E89;">>>>, <<"&#x1E8A;", <<"&#x1E8B;">>>>,
    <<"&#x1E8C;", <<"&#x1E8D;">>>>, <<"&#x1E8E;", <<"&#x1E8F;">>>>,
    <<"&#x1E90;", <<"&#x1E91;">>>>, <<"&#x1E92;", <<"&#x1E93;">>>>,
    <<"&#x1E94;", <<"&#x1E95;">>>>, <<"&#x1E9E;", <<"&#xDF;">>>>,
    <<"&#x1EA0;", <<"&#x1EA1;">>>>, <<"&#x1EA2;", <<"&#x1EA3;">>>>,
    <<"&#x1EA4;", <<"&#x1EA5;">>>>, <<"&#x1EA6;", <<"&#x1EA7;">>>>,
    <<"&#x1EA8;", <<"&#x1EA9;">>>>, <<"&#x1EAA;", <<"&#x1EAB;">>>>,
    <<"&#x1EAC;", <<"&#x1EAD;">>>>, <<"&#x1EAE;", <<"&#x1EAF;">>>>,
    <<"&#x1EB0;", <<"&#x1EB1;">>>>, <<"&#x1EB2;", <<"&#x1EB3;">>>>,
    <<"&#x1EB4;", <<"&#x1EB5;">>>>, <<"&#x1EB6;", <<"&#x1EB7;">>>>,
    <<"&#x1EB8;", <<"&#x1EB9;">>>>, <<"&#x1EBA;", <<"&#x1EBB;">>>>,
    <<"&#x1EBC;", <<"&#x1EBD;">>>>, <<"&#x1EBE;", <<"&#x1EBF;">>>>,
    <<"&#x1EC0;", <<"&#x1EC1;">>>>, <<"&#x1EC2;", <<"&#x1EC3;">>>>,
    <<"&#x1EC4;", <<"&#x1EC5;">>>>, <<"&#x1EC6;", <<"&#x1EC7;">>>>,
    <<"&#x1EC8;", <<"&#x1EC9;">>>>, <<"&#x1ECA;", <<"&#x1ECB;">>>>,
    <<"&#x1ECC;", <<"&#x1ECD;">>>>, <<"&#x1ECE;", <<"&#x1ECF;">>>>,
    <<"&#x1ED0;", <<"&#x1ED1;">>>>, <<"&#x1ED2;", <<"&#x1ED3;">>>>,
    <<"&#x1ED4;", <<"&#x1ED5;">>>>, <<"&#x1ED6;", <<"&#x1ED7;">>>>,
    <<"&#x1ED8;", <<"&#x1ED9;">>>>, <<"&#x1EDA;", <<"&#x1EDB;">>>>,
    <<"&#x1EDC;", <<"&#x1EDD;">>>>, <<"&#x1EDE;", <<"&#x1EDF;">>>>,
    <<"&#x1EE0;", <<"&#x1EE1;">>>>, <<"&#x1EE2;", <<"&#x1EE3;">>>>,
    <<"&#x1EE4;", <<"&#x1EE5;">>>>, <<"&#x1EE6;", <<"&#x1EE7;">>>>,
    <<"&#x1EE8;", <<"&#x1EE9;">>>>, <<"&#x1EEA;", <<"&#x1EEB;">>>>,
    <<"&#x1EEC;", <<"&#x1EED;">>>>, <<"&#x1EEE;", <<"&#x1EEF;">>>>,
    <<"&#x1EF0;", <<"&#x1EF1;">>>>, <<"&#x1EF2;", <<"&#x1EF3;">>>>,
    <<"&#x1EF4;", <<"&#x1EF5;">>>>, <<"&#x1EF6;", <<"&#x1EF7;">>>>,
    <<"&#x1EF8;", <<"&#x1EF9;">>>>, <<"&#x1EFA;", <<"&#x1EFB;">>>>,
    <<"&#x1EFC;", <<"&#x1EFD;">>>>, <<"&#x1EFE;", <<"&#x1EFF;">>>>,
    <<"&#x1F08;", <<"&#x1F00;">>>>, <<"&#x1F09;", <<"&#x1F01;">>>>,
    <<"&#x1F0A;", <<"&#x1F02;">>>>, <<"&#x1F0B;", <<"&#x1F03;">>>>,
    <<"&#x1F0C;", <<"&#x1F04;">>>>, <<"&#x1F0D;", <<"&#x1F05;">>>>,
    <<"&#x1F0E;", <<"&#x1F06;">>>>, <<"&#x1F0F;", <<"&#x1F07;">>>>,
    <<"&#x1F18;", <<"&#x1F10;">>>>, <<"&#x1F19;", <<"&#x1F11;">>>>,
    <<"&#x1F1A;", <<"&#x1F12;">>>>, <<"&#x1F1B;", <<"&#x1F13;">>>>,
    <<"&#x1F1C;", <<"&#x1F14;">>>>, <<"&#x1F1D;", <<"&#x1F15;">>>>,
    <<"&#x1F28;", <<"&#x1F20;">>>>, <<"&#x1F29;", <<"&#x1F21;">>>>,
    <<"&#x1F2A;", <<"&#x1F22;">>>>, <<"&#x1F2B;", <<"&#x1F23;">>>>,
    <<"&#x1F2C;", <<"&#x1F24;">>>>, <<"&#x1F2D;", <<"&#x1F25;">>>>,
    <<"&#x1F2E;", <<"&#x1F26;">>>>, <<"&#x1F2F;", <<"&#x1F27;">>>>,
    <<"&#x1F38;", <<"&#x1F30;">>>>, <<"&#x1F39;", <<"&#x1F31;">>>>,
    <<"&#x1F3A;", <<"&#x1F32;">>>>, <<"&#x1F3B;", <<"&#x1F33;">>>>,
    <<"&#x1F3C;", <<"&#x1F34;">>>>, <<"&#x1F3D;", <<"&#x1F35;">>>>,
    <<"&#x1F3E;", <<"&#x1F36;">>>>, <<"&#x1F3F;", <<"&#x1F37;">>>>,
    <<"&#x1F48;", <<"&#x1F40;">>>>, <<"&#x1F49;", <<"&#x1F41;">>>>,
    <<"&#x1F4A;", <<"&#x1F42;">>>>, <<"&#x1F4B;", <<"&#x1F43;">>>>,
    <<"&#x1F4C;", <<"&#x1F44;">>>>, <<"&#x1F4D;", <<"&#x1F45;">>>>,
    <<"&#x1F59;", <<"&#x1F51;">>>>, <<"&#x1F5B;", <<"&#x1F53;">>>>,
    <<"&#x1F5D;", <<"&#x1F55;">>>>, <<"&#x1F5F;", <<"&#x1F57;">>>>,
    <<"&#x1F68;", <<"&#x1F60;">>>>, <<"&#x1F69;", <<"&#x1F61;">>>>,
    <<"&#x1F6A;", <<"&#x1F62;">>>>, <<"&#x1F6B;", <<"&#x1F63;">>>>,
    <<"&#x1F6C;", <<"&#x1F64;">>>>, <<"&#x1F6D;", <<"&#x1F65;">>>>,
    <<"&#x1F6E;", <<"&#x1F66;">>>>, <<"&#x1F6F;", <<"&#x1F67;">>>>,
    <<"&#x1F88;", <<"&#x1F80;">>>>, <<"&#x1F89;", <<"&#x1F81;">>>>,
    <<"&#x1F8A;", <<"&#x1F82;">>>>, <<"&#x1F8B;", <<"&#x1F83;">>>>,
    <<"&#x1F8C;", <<"&#x1F84;">>>>, <<"&#x1F8D;", <<"&#x1F85;">>>>,
    <<"&#x1F8E;", <<"&#x1F86;">>>>, <<"&#x1F8F;", <<"&#x1F87;">>>>,
    <<"&#x1F98;", <<"&#x1F90;">>>>, <<"&#x1F99;", <<"&#x1F91;">>>>,
    <<"&#x1F9A;", <<"&#x1F92;">>>>, <<"&#x1F9B;", <<"&#x1F93;">>>>,
    <<"&#x1F9C;", <<"&#x1F94;">>>>, <<"&#x1F9D;", <<"&#x1F95;">>>>,
    <<"&#x1F9E;", <<"&#x1F96;">>>>, <<"&#x1F9F;", <<"&#x1F97;">>>>,
    <<"&#x1FA8;", <<"&#x1FA0;">>>>, <<"&#x1FA9;", <<"&#x1FA1;">>>>,
    <<"&#x1FAA;", <<"&#x1FA2;">>>>, <<"&#x1FAB;", <<"&#x1FA3;">>>>,
    <<"&#x1FAC;", <<"&#x1FA4;">>>>, <<"&#x1FAD;", <<"&#x1FA5;">>>>,
    <<"&#x1FAE;", <<"&#x1FA6;">>>>, <<"&#x1FAF;", <<"&#x1FA7;">>>>,
    <<"&#x1FB8;", <<"&#x1FB0;">>>>, <<"&#x1FB9;", <<"&#x1FB1;">>>>,
    <<"&#x1FBA;", <<"&#x1F70;">>>>, <<"&#x1FBB;", <<"&#x1F71;">>>>,
    <<"&#x1FBC;", <<"&#x1FB3;">>>>, <<"&#x1FC8;", <<"&#x1F72;">>>>,
    <<"&#x1FC9;", <<"&#x1F73;">>>>, <<"&#x1FCA;", <<"&#x1F74;">>>>,
    <<"&#x1FCB;", <<"&#x1F75;">>>>, <<"&#x1FCC;", <<"&#x1FC3;">>>>,
    <<"&#x1FD8;", <<"&#x1FD0;">>>>, <<"&#x1FD9;", <<"&#x1FD1;">>>>,
    <<"&#x1FDA;", <<"&#x1F76;">>>>, <<"&#x1FDB;", <<"&#x1F77;">>>>,
    <<"&#x1FE8;", <<"&#x1FE0;">>>>, <<"&#x1FE9;", <<"&#x1FE1;">>>>,
    <<"&#x1FEA;", <<"&#x1F7A;">>>>, <<"&#x1FEB;", <<"&#x1F7B;">>>>,
    <<"&#x1FEC;", <<"&#x1FE5;">>>>, <<"&#x1FF8;", <<"&#x1F78;">>>>,
    <<"&#x1FF9;", <<"&#x1F79;">>>>, <<"&#x1FFA;", <<"&#x1F7C;">>>>,
    <<"&#x1FFB;", <<"&#x1F7D;">>>>, <<"&#x1FFC;", <<"&#x1FF3;">>>>,
    <<"&#x2126;", <<"&#x3C9;">>>>, <<"&#x212A;", <<"k">>>>,
    <<"&#x212B;", <<"&#xE5;">>>>, <<"&#x2132;", <<"&#x214E;">>>>,
    <<"&#x2160;", <<"&#x2170;">>>>, <<"&#x2161;", <<"&#x2171;">>>>,
    <<"&#x2162;", <<"&#x2172;">>>>, <<"&#x2163;", <<"&#x2173;">>>>,
    <<"&#x2164;", <<"&#x2174;">>>>, <<"&#x2165;", <<"&#x2175;">>>>,
    <<"&#x2166;", <<"&#x2176;">>>>, <<"&#x2167;", <<"&#x2177;">>>>,
    <<"&#x2168;", <<"&#x2178;">>>>, <<"&#x2169;", <<"&#x2179;">>>>,
    <<"&#x216A;", <<"&#x217A;">>>>, <<"&#x216B;", <<"&#x217B;">>>>,
    <<"&#x216C;", <<"&#x217C;">>>>, <<"&#x216D;", <<"&#x217D;">>>>,
    <<"&#x216E;", <<"&#x217E;">>>>, <<"&#x216F;", <<"&#x217F;">>>>,
    <<"&#x2183;", <<"&#x2184;">>>>, <<"&#x24B6;", <<"&#x24D0;">>>>,
    <<"&#x24B7;", <<"&#x24D1;">>>>, <<"&#x24B8;", <<"&#x24D2;">>>>,
    <<"&#x24B9;", <<"&#x24D3;">>>>, <<"&#x24BA;", <<"&#x24D4;">>>>,
    <<"&#x24BB;", <<"&#x24D5;">>>>, <<"&#x24BC;", <<"&#x24D6;">>>>,
    <<"&#x24BD;", <<"&#x24D7;">>>>, <<"&#x24BE;", <<"&#x24D8;">>>>,
    <<"&#x24BF;", <<"&#x24D9;">>>>, <<"&#x24C0;", <<"&#x24DA;">>>>,
    <<"&#x24C1;", <<"&#x24DB;">>>>, <<"&#x24C2;", <<"&#x24DC;">>>>,
    <<"&#x24C3;", <<"&#x24DD;">>>>, <<"&#x24C4;", <<"&#x24DE;">>>>,
    <<"&#x24C5;", <<"&#x24DF;">>>>, <<"&#x24C6;", <<"&#x24E0;">>>>,
    <<"&#x24C7;", <<"&#x24E1;">>>>, <<"&#x24C8;", <<"&#x24E2;">>>>,
    <<"&#x24C9;", <<"&#x24E3;">>>>, <<"&#x24CA;", <<"&#x24E4;">>>>,
    <<"&#x24CB;", <<"&#x24E5;">>>>, <<"&#x24CC;", <<"&#x24E6;">>>>,
    <<"&#x24CD;", <<"&#x24E7;">>>>, <<"&#x24CE;", <<"&#x24E8;">>>>,
    <<"&#x24CF;", <<"&#x24E9;">>>>, <<"&#x2C00;", <<"&#x2C30;">>>>,
    <<"&#x2C01;", <<"&#x2C31;">>>>, <<"&#x2C02;", <<"&#x2C32;">>>>,
    <<"&#x2C03;", <<"&#x2C33;">>>>, <<"&#x2C04;", <<"&#x2C34;">>>>,
    <<"&#x2C05;", <<"&#x2C35;">>>>, <<"&#x2C06;", <<"&#x2C36;">>>>,
    <<"&#x2C07;", <<"&#x2C37;">>>>, <<"&#x2C08;", <<"&#x2C38;">>>>,
    <<"&#x2C09;", <<"&#x2C39;">>>>, <<"&#x2C0A;", <<"&#x2C3A;">>>>,
    <<"&#x2C0B;", <<"&#x2C3B;">>>>, <<"&#x2C0C;", <<"&#x2C3C;">>>>,
    <<"&#x2C0D;", <<"&#x2C3D;">>>>, <<"&#x2C0E;", <<"&#x2C3E;">>>>,
    <<"&#x2C0F;", <<"&#x2C3F;">>>>, <<"&#x2C10;", <<"&#x2C40;">>>>,
    <<"&#x2C11;", <<"&#x2C41;">>>>, <<"&#x2C12;", <<"&#x2C42;">>>>,
    <<"&#x2C13;", <<"&#x2C43;">>>>, <<"&#x2C14;", <<"&#x2C44;">>>>,
    <<"&#x2C15;", <<"&#x2C45;">>>>, <<"&#x2C16;", <<"&#x2C46;">>>>,
    <<"&#x2C17;", <<"&#x2C47;">>>>, <<"&#x2C18;", <<"&#x2C48;">>>>,
    <<"&#x2C19;", <<"&#x2C49;">>>>, <<"&#x2C1A;", <<"&#x2C4A;">>>>,
    <<"&#x2C1B;", <<"&#x2C4B;">>>>, <<"&#x2C1C;", <<"&#x2C4C;">>>>,
    <<"&#x2C1D;", <<"&#x2C4D;">>>>, <<"&#x2C1E;", <<"&#x2C4E;">>>>,
    <<"&#x2C1F;", <<"&#x2C4F;">>>>, <<"&#x2C20;", <<"&#x2C50;">>>>,
    <<"&#x2C21;", <<"&#x2C51;">>>>, <<"&#x2C22;", <<"&#x2C52;">>>>,
    <<"&#x2C23;", <<"&#x2C53;">>>>, <<"&#x2C24;", <<"&#x2C54;">>>>,
    <<"&#x2C25;", <<"&#x2C55;">>>>, <<"&#x2C26;", <<"&#x2C56;">>>>,
    <<"&#x2C27;", <<"&#x2C57;">>>>, <<"&#x2C28;", <<"&#x2C58;">>>>,
    <<"&#x2C29;", <<"&#x2C59;">>>>, <<"&#x2C2A;", <<"&#x2C5A;">>>>,
    <<"&#x2C2B;", <<"&#x2C5B;">>>>, <<"&#x2C2C;", <<"&#x2C5C;">>>>,
    <<"&#x2C2D;", <<"&#x2C5D;">>>>, <<"&#x2C2E;", <<"&#x2C5E;">>>>,
    <<"&#x2C2F;", <<"&#x2C5F;">>>>, <<"&#x2C60;", <<"&#x2C61;">>>>,
    <<"&#x2C62;", <<"&#x26B;">>>>, <<"&#x2C63;", <<"&#x1D7D;">>>>,
    <<"&#x2C64;", <<"&#x27D;">>>>, <<"&#x2C67;", <<"&#x2C68;">>>>,
    <<"&#x2C69;", <<"&#x2C6A;">>>>, <<"&#x2C6B;", <<"&#x2C6C;">>>>,
    <<"&#x2C6D;", <<"&#x251;">>>>, <<"&#x2C6E;", <<"&#x271;">>>>,
    <<"&#x2C6F;", <<"&#x250;">>>>, <<"&#x2C70;", <<"&#x252;">>>>,
    <<"&#x2C72;", <<"&#x2C73;">>>>, <<"&#x2C75;", <<"&#x2C76;">>>>,
    <<"&#x2C7E;", <<"&#x23F;">>>>, <<"&#x2C7F;", <<"&#x240;">>>>,
    <<"&#x2C80;", <<"&#x2C81;">>>>, <<"&#x2C82;", <<"&#x2C83;">>>>,
    <<"&#x2C84;", <<"&#x2C85;">>>>, <<"&#x2C86;", <<"&#x2C87;">>>>,
    <<"&#x2C88;", <<"&#x2C89;">>>>, <<"&#x2C8A;", <<"&#x2C8B;">>>>,
    <<"&#x2C8C;", <<"&#x2C8D;">>>>, <<"&#x2C8E;", <<"&#x2C8F;">>>>,
    <<"&#x2C90;", <<"&#x2C91;">>>>, <<"&#x2C92;", <<"&#x2C93;">>>>,
    <<"&#x2C94;", <<"&#x2C95;">>>>, <<"&#x2C96;", <<"&#x2C97;">>>>,
    <<"&#x2C98;", <<"&#x2C99;">>>>, <<"&#x2C9A;", <<"&#x2C9B;">>>>,
    <<"&#x2C9C;", <<"&#x2C9D;">>>>, <<"&#x2C9E;", <<"&#x2C9F;">>>>,
    <<"&#x2CA0;", <<"&#x2CA1;">>>>, <<"&#x2CA2;", <<"&#x2CA3;">>>>,
    <<"&#x2CA4;", <<"&#x2CA5;">>>>, <<"&#x2CA6;", <<"&#x2CA7;">>>>,
    <<"&#x2CA8;", <<"&#x2CA9;">>>>, <<"&#x2CAA;", <<"&#x2CAB;">>>>,
    <<"&#x2CAC;", <<"&#x2CAD;">>>>, <<"&#x2CAE;", <<"&#x2CAF;">>>>,
    <<"&#x2CB0;", <<"&#x2CB1;">>>>, <<"&#x2CB2;", <<"&#x2CB3;">>>>,
    <<"&#x2CB4;", <<"&#x2CB5;">>>>, <<"&#x2CB6;", <<"&#x2CB7;">>>>,
    <<"&#x2CB8;", <<"&#x2CB9;">>>>, <<"&#x2CBA;", <<"&#x2CBB;">>>>,
    <<"&#x2CBC;", <<"&#x2CBD;">>>>, <<"&#x2CBE;", <<"&#x2CBF;">>>>,
    <<"&#x2CC0;", <<"&#x2CC1;">>>>, <<"&#x2CC2;", <<"&#x2CC3;">>>>,
    <<"&#x2CC4;", <<"&#x2CC5;">>>>, <<"&#x2CC6;", <<"&#x2CC7;">>>>,
    <<"&#x2CC8;", <<"&#x2CC9;">>>>, <<"&#x2CCA;", <<"&#x2CCB;">>>>,
    <<"&#x2CCC;", <<"&#x2CCD;">>>>, <<"&#x2CCE;", <<"&#x2CCF;">>>>,
    <<"&#x2CD0;", <<"&#x2CD1;">>>>, <<"&#x2CD2;", <<"&#x2CD3;">>>>,
    <<"&#x2CD4;", <<"&#x2CD5;">>>>, <<"&#x2CD6;", <<"&#x2CD7;">>>>,
    <<"&#x2CD8;", <<"&#x2CD9;">>>>, <<"&#x2CDA;", <<"&#x2CDB;">>>>,
    <<"&#x2CDC;", <<"&#x2CDD;">>>>, <<"&#x2CDE;", <<"&#x2CDF;">>>>,
    <<"&#x2CE0;", <<"&#x2CE1;">>>>, <<"&#x2CE2;", <<"&#x2CE3;">>>>,
    <<"&#x2CEB;", <<"&#x2CEC;">>>>, <<"&#x2CED;", <<"&#x2CEE;">>>>,
    <<"&#x2CF2;", <<"&#x2CF3;">>>>, <<"&#xA640;", <<"&#xA641;">>>>,
    <<"&#xA642;", <<"&#xA643;">>>>, <<"&#xA644;", <<"&#xA645;">>>>,
    <<"&#xA646;", <<"&#xA647;">>>>, <<"&#xA648;", <<"&#xA649;">>>>,
    <<"&#xA64A;", <<"&#xA64B;">>>>, <<"&#xA64C;", <<"&#xA64D;">>>>,
    <<"&#xA64E;", <<"&#xA64F;">>>>, <<"&#xA650;", <<"&#xA651;">>>>,
    <<"&#xA652;", <<"&#xA653;">>>>, <<"&#xA654;", <<"&#xA655;">>>>,
    <<"&#xA656;", <<"&#xA657;">>>>, <<"&#xA658;", <<"&#xA659;">>>>,
    <<"&#xA65A;", <<"&#xA65B;">>>>, <<"&#xA65C;", <<"&#xA65D;">>>>,
    <<"&#xA65E;", <<"&#xA65F;">>>>, <<"&#xA660;", <<"&#xA661;">>>>,
    <<"&#xA662;", <<"&#xA663;">>>>, <<"&#xA664;", <<"&#xA665;">>>>,
    <<"&#xA666;", <<"&#xA667;">>>>, <<"&#xA668;", <<"&#xA669;">>>>,
    <<"&#xA66A;", <<"&#xA66B;">>>>, <<"&#xA66C;", <<"&#xA66D;">>>>,
    <<"&#xA680;", <<"&#xA681;">>>>, <<"&#xA682;", <<"&#xA683;">>>>,
    <<"&#xA684;", <<"&#xA685;">>>>, <<"&#xA686;", <<"&#xA687;">>>>,
    <<"&#xA688;", <<"&#xA689;">>>>, <<"&#xA68A;", <<"&#xA68B;">>>>,
    <<"&#xA68C;", <<"&#xA68D;">>>>, <<"&#xA68E;", <<"&#xA68F;">>>>,
    <<"&#xA690;", <<"&#xA691;">>>>, <<"&#xA692;", <<"&#xA693;">>>>,
    <<"&#xA694;", <<"&#xA695;">>>>, <<"&#xA696;", <<"&#xA697;">>>>,
    <<"&#xA698;", <<"&#xA699;">>>>, <<"&#xA69A;", <<"&#xA69B;">>>>,
    <<"&#xA722;", <<"&#xA723;">>>>, <<"&#xA724;", <<"&#xA725;">>>>,
    <<"&#xA726;", <<"&#xA727;">>>>, <<"&#xA728;", <<"&#xA729;">>>>,
    <<"&#xA72A;", <<"&#xA72B;">>>>, <<"&#xA72C;", <<"&#xA72D;">>>>,
    <<"&#xA72E;", <<"&#xA72F;">>>>, <<"&#xA732;", <<"&#xA733;">>>>,
    <<"&#xA734;", <<"&#xA735;">>>>, <<"&#xA736;", <<"&#xA737;">>>>,
    <<"&#xA738;", <<"&#xA739;">>>>, <<"&#xA73A;", <<"&#xA73B;">>>>,
    <<"&#xA73C;", <<"&#xA73D;">>>>, <<"&#xA73E;", <<"&#xA73F;">>>>,
    <<"&#xA740;", <<"&#xA741;">>>>, <<"&#xA742;", <<"&#xA743;">>>>,
    <<"&#xA744;", <<"&#xA745;">>>>, <<"&#xA746;", <<"&#xA747;">>>>,
    <<"&#xA748;", <<"&#xA749;">>>>, <<"&#xA74A;", <<"&#xA74B;">>>>,
    <<"&#xA74C;", <<"&#xA74D;">>>>, <<"&#xA74E;", <<"&#xA74F;">>>>,
    <<"&#xA750;", <<"&#xA751;">>>>, <<"&#xA752;", <<"&#xA753;">>>>,
    <<"&#xA754;", <<"&#xA755;">>>>, <<"&#xA756;", <<"&#xA757;">>>>,
    <<"&#xA758;", <<"&#xA759;">>>>, <<"&#xA75A;", <<"&#xA75B;">>>>,
    <<"&#xA75C;", <<"&#xA75D;">>>>, <<"&#xA75E;", <<"&#xA75F;">>>>,
    <<"&#xA760;", <<"&#xA761;">>>>, <<"&#xA762;", <<"&#xA763;">>>>,
    <<"&#xA764;", <<"&#xA765;">>>>, <<"&#xA766;", <<"&#xA767;">>>>,
    <<"&#xA768;", <<"&#xA769;">>>>, <<"&#xA76A;", <<"&#xA76B;">>>>,
    <<"&#xA76C;", <<"&#xA76D;">>>>, <<"&#xA76E;", <<"&#xA76F;">>>>,
    <<"&#xA779;", <<"&#xA77A;">>>>, <<"&#xA77B;", <<"&#xA77C;">>>>,
    <<"&#xA77D;", <<"&#x1D79;">>>>, <<"&#xA77E;", <<"&#xA77F;">>>>,
    <<"&#xA780;", <<"&#xA781;">>>>, <<"&#xA782;", <<"&#xA783;">>>>,
    <<"&#xA784;", <<"&#xA785;">>>>, <<"&#xA786;", <<"&#xA787;">>>>,
    <<"&#xA78B;", <<"&#xA78C;">>>>, <<"&#xA78D;", <<"&#x265;">>>>,
    <<"&#xA790;", <<"&#xA791;">>>>, <<"&#xA792;", <<"&#xA793;">>>>,
    <<"&#xA796;", <<"&#xA797;">>>>, <<"&#xA798;", <<"&#xA799;">>>>,
    <<"&#xA79A;", <<"&#xA79B;">>>>, <<"&#xA79C;", <<"&#xA79D;">>>>,
    <<"&#xA79E;", <<"&#xA79F;">>>>, <<"&#xA7A0;", <<"&#xA7A1;">>>>,
    <<"&#xA7A2;", <<"&#xA7A3;">>>>, <<"&#xA7A4;", <<"&#xA7A5;">>>>,
    <<"&#xA7A6;", <<"&#xA7A7;">>>>, <<"&#xA7A8;", <<"&#xA7A9;">>>>,
    <<"&#xA7AA;", <<"&#x266;">>>>, <<"&#xA7AB;", <<"&#x25C;">>>>,
    <<"&#xA7AC;", <<"&#x261;">>>>, <<"&#xA7AD;", <<"&#x26C;">>>>,
    <<"&#xA7AE;", <<"&#x26A;">>>>, <<"&#xA7B0;", <<"&#x29E;">>>>,
    <<"&#xA7B1;", <<"&#x287;">>>>, <<"&#xA7B2;", <<"&#x29D;">>>>,
    <<"&#xA7B3;", <<"&#xAB53;">>>>, <<"&#xA7B4;", <<"&#xA7B5;">>>>,
    <<"&#xA7B6;", <<"&#xA7B7;">>>>, <<"&#xA7B8;", <<"&#xA7B9;">>>>,
    <<"&#xA7BA;", <<"&#xA7BB;">>>>, <<"&#xA7BC;", <<"&#xA7BD;">>>>,
    <<"&#xA7BE;", <<"&#xA7BF;">>>>, <<"&#xA7C0;", <<"&#xA7C1;">>>>,
    <<"&#xA7C2;", <<"&#xA7C3;">>>>, <<"&#xA7C4;", <<"&#xA794;">>>>,
    <<"&#xA7C5;", <<"&#x282;">>>>, <<"&#xA7C6;", <<"&#x1D8E;">>>>,
    <<"&#xA7C7;", <<"&#xA7C8;">>>>, <<"&#xA7C9;", <<"&#xA7CA;">>>>,
    <<"&#xA7D0;", <<"&#xA7D1;">>>>, <<"&#xA7D6;", <<"&#xA7D7;">>>>,
    <<"&#xA7D8;", <<"&#xA7D9;">>>>, <<"&#xA7F5;", <<"&#xA7F6;">>>>,
    <<"&#xFF21;", <<"&#xFF41;">>>>, <<"&#xFF22;", <<"&#xFF42;">>>>,
    <<"&#xFF23;", <<"&#xFF43;">>>>, <<"&#xFF24;", <<"&#xFF44;">>>>,
    <<"&#xFF25;", <<"&#xFF45;">>>>, <<"&#xFF26;", <<"&#xFF46;">>>>,
    <<"&#xFF27;", <<"&#xFF47;">>>>, <<"&#xFF28;", <<"&#xFF48;">>>>,
    <<"&#xFF29;", <<"&#xFF49;">>>>, <<"&#xFF2A;", <<"&#xFF4A;">>>>,
    <<"&#xFF2B;", <<"&#xFF4B;">>>>, <<"&#xFF2C;", <<"&#xFF4C;">>>>,
    <<"&#xFF2D;", <<"&#xFF4D;">>>>, <<"&#xFF2E;", <<"&#xFF4E;">>>>,
    <<"&#xFF2F;", <<"&#xFF4F;">>>>, <<"&#xFF30;", <<"&#xFF50;">>>>,
    <<"&#xFF31;", <<"&#xFF51;">>>>, <<"&#xFF32;", <<"&#xFF52;">>>>,
    <<"&#xFF33;", <<"&#xFF53;">>>>, <<"&#xFF34;", <<"&#xFF54;">>>>,
    <<"&#xFF35;", <<"&#xFF55;">>>>, <<"&#xFF36;", <<"&#xFF56;">>>>,
    <<"&#xFF37;", <<"&#xFF57;">>>>, <<"&#xFF38;", <<"&#xFF58;">>>>,
    <<"&#xFF39;", <<"&#xFF59;">>>>, <<"&#xFF3A;", <<"&#xFF5A;">>>>,
    <<"&#x10400;", <<"&#x10428;">>>>, <<"&#x10401;", <<"&#x10429;">>>>,
    <<"&#x10402;", <<"&#x1042A;">>>>, <<"&#x10403;", <<"&#x1042B;">>>>,
    <<"&#x10404;", <<"&#x1042C;">>>>, <<"&#x10405;", <<"&#x1042D;">>>>,
    <<"&#x10406;", <<"&#x1042E;">>>>, <<"&#x10407;", <<"&#x1042F;">>>>,
    <<"&#x10408;", <<"&#x10430;">>>>, <<"&#x10409;", <<"&#x10431;">>>>,
    <<"&#x1040A;", <<"&#x10432;">>>>, <<"&#x1040B;", <<"&#x10433;">>>>,
    <<"&#x1040C;", <<"&#x10434;">>>>, <<"&#x1040D;", <<"&#x10435;">>>>,
    <<"&#x1040E;", <<"&#x10436;">>>>, <<"&#x1040F;", <<"&#x10437;">>>>,
    <<"&#x10410;", <<"&#x10438;">>>>, <<"&#x10411;", <<"&#x10439;">>>>,
    <<"&#x10412;", <<"&#x1043A;">>>>, <<"&#x10413;", <<"&#x1043B;">>>>,
    <<"&#x10414;", <<"&#x1043C;">>>>, <<"&#x10415;", <<"&#x1043D;">>>>,
    <<"&#x10416;", <<"&#x1043E;">>>>, <<"&#x10417;", <<"&#x1043F;">>>>,
    <<"&#x10418;", <<"&#x10440;">>>>, <<"&#x10419;", <<"&#x10441;">>>>,
    <<"&#x1041A;", <<"&#x10442;">>>>, <<"&#x1041B;", <<"&#x10443;">>>>,
    <<"&#x1041C;", <<"&#x10444;">>>>, <<"&#x1041D;", <<"&#x10445;">>>>,
    <<"&#x1041E;", <<"&#x10446;">>>>, <<"&#x1041F;", <<"&#x10447;">>>>,
    <<"&#x10420;", <<"&#x10448;">>>>, <<"&#x10421;", <<"&#x10449;">>>>,
    <<"&#x10422;", <<"&#x1044A;">>>>, <<"&#x10423;", <<"&#x1044B;">>>>,
    <<"&#x10424;", <<"&#x1044C;">>>>, <<"&#x10425;", <<"&#x1044D;">>>>,
    <<"&#x10426;", <<"&#x1044E;">>>>, <<"&#x10427;", <<"&#x1044F;">>>>,
    <<"&#x104B0;", <<"&#x104D8;">>>>, <<"&#x104B1;", <<"&#x104D9;">>>>,
    <<"&#x104B2;", <<"&#x104DA;">>>>, <<"&#x104B3;", <<"&#x104DB;">>>>,
    <<"&#x104B4;", <<"&#x104DC;">>>>, <<"&#x104B5;", <<"&#x104DD;">>>>,
    <<"&#x104B6;", <<"&#x104DE;">>>>, <<"&#x104B7;", <<"&#x104DF;">>>>,
    <<"&#x104B8;", <<"&#x104E0;">>>>, <<"&#x104B9;", <<"&#x104E1;">>>>,
    <<"&#x104BA;", <<"&#x104E2;">>>>, <<"&#x104BB;", <<"&#x104E3;">>>>,
    <<"&#x104BC;", <<"&#x104E4;">>>>, <<"&#x104BD;", <<"&#x104E5;">>>>,
    <<"&#x104BE;", <<"&#x104E6;">>>>, <<"&#x104BF;", <<"&#x104E7;">>>>,
    <<"&#x104C0;", <<"&#x104E8;">>>>, <<"&#x104C1;", <<"&#x104E9;">>>>,
    <<"&#x104C2;", <<"&#x104EA;">>>>, <<"&#x104C3;", <<"&#x104EB;">>>>,
    <<"&#x104C4;", <<"&#x104EC;">>>>, <<"&#x104C5;", <<"&#x104ED;">>>>,
    <<"&#x104C6;", <<"&#x104EE;">>>>, <<"&#x104C7;", <<"&#x104EF;">>>>,
    <<"&#x104C8;", <<"&#x104F0;">>>>, <<"&#x104C9;", <<"&#x104F1;">>>>,
    <<"&#x104CA;", <<"&#x104F2;">>>>, <<"&#x104CB;", <<"&#x104F3;">>>>,
    <<"&#x104CC;", <<"&#x104F4;">>>>, <<"&#x104CD;", <<"&#x104F5;">>>>,
    <<"&#x104CE;", <<"&#x104F6;">>>>, <<"&#x104CF;", <<"&#x104F7;">>>>,
    <<"&#x104D0;", <<"&#x104F8;">>>>, <<"&#x104D1;", <<"&#x104F9;">>>>,
    <<"&#x104D2;", <<"&#x104FA;">>>>, <<"&#x104D3;", <<"&#x104FB;">>>>,
    <<"&#x10570;", <<"&#x10597;">>>>, <<"&#x10571;", <<"&#x10598;">>>>,
    <<"&#x10572;", <<"&#x10599;">>>>, <<"&#x10573;", <<"&#x1059A;">>>>,
    <<"&#x10574;", <<"&#x1059B;">>>>, <<"&#x10575;", <<"&#x1059C;">>>>,
    <<"&#x10576;", <<"&#x1059D;">>>>, <<"&#x10577;", <<"&#x1059E;">>>>,
    <<"&#x10578;", <<"&#x1059F;">>>>, <<"&#x10579;", <<"&#x105A0;">>>>,
    <<"&#x1057A;", <<"&#x105A1;">>>>, <<"&#x1057C;", <<"&#x105A3;">>>>,
    <<"&#x1057D;", <<"&#x105A4;">>>>, <<"&#x1057E;", <<"&#x105A5;">>>>,
    <<"&#x1057F;", <<"&#x105A6;">>>>, <<"&#x10580;", <<"&#x105A7;">>>>,
    <<"&#x10581;", <<"&#x105A8;">>>>, <<"&#x10582;", <<"&#x105A9;">>>>,
    <<"&#x10583;", <<"&#x105AA;">>>>, <<"&#x10584;", <<"&#x105AB;">>>>,
    <<"&#x10585;", <<"&#x105AC;">>>>, <<"&#x10586;", <<"&#x105AD;">>>>,
    <<"&#x10587;", <<"&#x105AE;">>>>, <<"&#x10588;", <<"&#x105AF;">>>>,
    <<"&#x10589;", <<"&#x105B0;">>>>, <<"&#x1058A;", <<"&#x105B1;">>>>,
    <<"&#x1058C;", <<"&#x105B3;">>>>, <<"&#x1058D;", <<"&#x105B4;">>>>,
    <<"&#x1058E;", <<"&#x105B5;">>>>, <<"&#x1058F;", <<"&#x105B6;">>>>,
    <<"&#x10590;", <<"&#x105B7;">>>>, <<"&#x10591;", <<"&#x105B8;">>>>,
    <<"&#x10592;", <<"&#x105B9;">>>>, <<"&#x10594;", <<"&#x105BB;">>>>,
    <<"&#x10595;", <<"&#x105BC;">>>>, <<"&#x10C80;", <<"&#x10CC0;">>>>,
    <<"&#x10C81;", <<"&#x10CC1;">>>>, <<"&#x10C82;", <<"&#x10CC2;">>>>,
    <<"&#x10C83;", <<"&#x10CC3;">>>>, <<"&#x10C84;", <<"&#x10CC4;">>>>,
    <<"&#x10C85;", <<"&#x10CC5;">>>>, <<"&#x10C86;", <<"&#x10CC6;">>>>,
    <<"&#x10C87;", <<"&#x10CC7;">>>>, <<"&#x10C88;", <<"&#x10CC8;">>>>,
    <<"&#x10C89;", <<"&#x10CC9;">>>>, <<"&#x10C8A;", <<"&#x10CCA;">>>>,
    <<"&#x10C8B;", <<"&#x10CCB;">>>>, <<"&#x10C8C;", <<"&#x10CCC;">>>>,
    <<"&#x10C8D;", <<"&#x10CCD;">>>>, <<"&#x10C8E;", <<"&#x10CCE;">>>>,
    <<"&#x10C8F;", <<"&#x10CCF;">>>>, <<"&#x10C90;", <<"&#x10CD0;">>>>,
    <<"&#x10C91;", <<"&#x10CD1;">>>>, <<"&#x10C92;", <<"&#x10CD2;">>>>,
    <<"&#x10C93;", <<"&#x10CD3;">>>>, <<"&#x10C94;", <<"&#x10CD4;">>>>,
    <<"&#x10C95;", <<"&#x10CD5;">>>>, <<"&#x10C96;", <<"&#x10CD6;">>>>,
    <<"&#x10C97;", <<"&#x10CD7;">>>>, <<"&#x10C98;", <<"&#x10CD8;">>>>,
    <<"&#x10C99;", <<"&#x10CD9;">>>>, <<"&#x10C9A;", <<"&#x10CDA;">>>>,
    <<"&#x10C9B;", <<"&#x10CDB;">>>>, <<"&#x10C9C;", <<"&#x10CDC;">>>>,
    <<"&#x10C9D;", <<"&#x10CDD;">>>>, <<"&#x10C9E;", <<"&#x10CDE;">>>>,
    <<"&#x10C9F;", <<"&#x10CDF;">>>>, <<"&#x10CA0;", <<"&#x10CE0;">>>>,
    <<"&#x10CA1;", <<"&#x10CE1;">>>>, <<"&#x10CA2;", <<"&#x10CE2;">>>>,
    <<"&#x10CA3;", <<"&#x10CE3;">>>>, <<"&#x10CA4;", <<"&#x10CE4;">>>>,
    <<"&#x10CA5;", <<"&#x10CE5;">>>>, <<"&#x10CA6;", <<"&#x10CE6;">>>>,
    <<"&#x10CA7;", <<"&#x10CE7;">>>>, <<"&#x10CA8;", <<"&#x10CE8;">>>>,
    <<"&#x10CA9;", <<"&#x10CE9;">>>>, <<"&#x10CAA;", <<"&#x10CEA;">>>>,
    <<"&#x10CAB;", <<"&#x10CEB;">>>>, <<"&#x10CAC;", <<"&#x10CEC;">>>>,
    <<"&#x10CAD;", <<"&#x10CED;">>>>, <<"&#x10CAE;", <<"&#x10CEE;">>>>,
    <<"&#x10CAF;", <<"&#x10CEF;">>>>, <<"&#x10CB0;", <<"&#x10CF0;">>>>,
    <<"&#x10CB1;", <<"&#x10CF1;">>>>, <<"&#x10CB2;", <<"&#x10CF2;">>>>,
    <<"&#x118A0;", <<"&#x118C0;">>>>, <<"&#x118A1;", <<"&#x118C1;">>>>,
    <<"&#x118A2;", <<"&#x118C2;">>>>, <<"&#x118A3;", <<"&#x118C3;">>>>,
    <<"&#x118A4;", <<"&#x118C4;">>>>, <<"&#x118A5;", <<"&#x118C5;">>>>,
    <<"&#x118A6;", <<"&#x118C6;">>>>, <<"&#x118A7;", <<"&#x118C7;">>>>,
    <<"&#x118A8;", <<"&#x118C8;">>>>, <<"&#x118A9;", <<"&#x118C9;">>>>,
    <<"&#x118AA;", <<"&#x118CA;">>>>, <<"&#x118AB;", <<"&#x118CB;">>>>,
    <<"&#x118AC;", <<"&#x118CC;">>>>, <<"&#x118AD;", <<"&#x118CD;">>>>,
    <<"&#x118AE;", <<"&#x118CE;">>>>, <<"&#x118AF;", <<"&#x118CF;">>>>,
    <<"&#x118B0;", <<"&#x118D0;">>>>, <<"&#x118B1;", <<"&#x118D1;">>>>,
    <<"&#x118B2;", <<"&#x118D2;">>>>, <<"&#x118B3;", <<"&#x118D3;">>>>,
    <<"&#x118B4;", <<"&#x118D4;">>>>, <<"&#x118B5;", <<"&#x118D5;">>>>,
    <<"&#x118B6;", <<"&#x118D6;">>>>, <<"&#x118B7;", <<"&#x118D7;">>>>,
    <<"&#x118B8;", <<"&#x118D8;">>>>, <<"&#x118B9;", <<"&#x118D9;">>>>,
    <<"&#x118BA;", <<"&#x118DA;">>>>, <<"&#x118BB;", <<"&#x118DB;">>>>,
    <<"&#x118BC;", <<"&#x118DC;">>>>, <<"&#x118BD;", <<"&#x118DD;">>>>,
    <<"&#x118BE;", <<"&#x118DE;">>>>, <<"&#x118BF;", <<"&#x118DF;">>>>,
    <<"&#x16E40;", <<"&#x16E60;">>>>, <<"&#x16E41;", <<"&#x16E61;">>>>,
    <<"&#x16E42;", <<"&#x16E62;">>>>, <<"&#x16E43;", <<"&#x16E63;">>>>,
    <<"&#x16E44;", <<"&#x16E64;">>>>, <<"&#x16E45;", <<"&#x16E65;">>>>,
    <<"&#x16E46;", <<"&#x16E66;">>>>, <<"&#x16E47;", <<"&#x16E67;">>>>,
    <<"&#x16E48;", <<"&#x16E68;">>>>, <<"&#x16E49;", <<"&#x16E69;">>>>,
    <<"&#x16E4A;", <<"&#x16E6A;">>>>, <<"&#x16E4B;", <<"&#x16E6B;">>>>,
    <<"&#x16E4C;", <<"&#x16E6C;">>>>, <<"&#x16E4D;", <<"&#x16E6D;">>>>,
    <<"&#x16E4E;", <<"&#x16E6E;">>>>, <<"&#x16E4F;", <<"&#x16E6F;">>>>,
    <<"&#x16E50;", <<"&#x16E70;">>>>, <<"&#x16E51;", <<"&#x16E71;">>>>,
    <<"&#x16E52;", <<"&#x16E72;">>>>, <<"&#x16E53;", <<"&#x16E73;">>>>,
    <<"&#x16E54;", <<"&#x16E74;">>>>, <<"&#x16E55;", <<"&#x16E75;">>>>,
    <<"&#x16E56;", <<"&#x16E76;">>>>, <<"&#x16E57;", <<"&#x16E77;">>>>,
    <<"&#x16E58;", <<"&#x16E78;">>>>, <<"&#x16E59;", <<"&#x16E79;">>>>,
    <<"&#x16E5A;", <<"&#x16E7A;">>>>, <<"&#x16E5B;", <<"&#x16E7B;">>>>,
    <<"&#x16E5C;", <<"&#x16E7C;">>>>, <<"&#x16E5D;", <<"&#x16E7D;">>>>,
    <<"&#x16E5E;", <<"&#x16E7E;">>>>, <<"&#x16E5F;", <<"&#x16E7F;">>>>,
    <<"&#x1E900;", <<"&#x1E922;">>>>, <<"&#x1E901;", <<"&#x1E923;">>>>,
    <<"&#x1E902;", <<"&#x1E924;">>>>, <<"&#x1E903;", <<"&#x1E925;">>>>,
    <<"&#x1E904;", <<"&#x1E926;">>>>, <<"&#x1E905;", <<"&#x1E927;">>>>,
    <<"&#x1E906;", <<"&#x1E928;">>>>, <<"&#x1E907;", <<"&#x1E929;">>>>,
    <<"&#x1E908;", <<"&#x1E92A;">>>>, <<"&#x1E909;", <<"&#x1E92B;">>>>,
    <<"&#x1E90A;", <<"&#x1E92C;">>>>, <<"&#x1E90B;", <<"&#x1E92D;">>>>,
    <<"&#x1E90C;", <<"&#x1E92E;">>>>, <<"&#x1E90D;", <<"&#x1E92F;">>>>,
    <<"&#x1E90E;", <<"&#x1E930;">>>>, <<"&#x1E90F;", <<"&#x1E931;">>>>,
    <<"&#x1E910;", <<"&#x1E932;">>>>, <<"&#x1E911;", <<"&#x1E933;">>>>,
    <<"&#x1E912;", <<"&#x1E934;">>>>, <<"&#x1E913;", <<"&#x1E935;">>>>,
    <<"&#x1E914;", <<"&#x1E936;">>>>, <<"&#x1E915;", <<"&#x1E937;">>>>,
    <<"&#x1E916;", <<"&#x1E938;">>>>, <<"&#x1E917;", <<"&#x1E939;">>>>,
    <<"&#x1E918;", <<"&#x1E93A;">>>>, <<"&#x1E919;", <<"&#x1E93B;">>>>,
    <<"&#x1E91A;", <<"&#x1E93C;">>>>, <<"&#x1E91B;", <<"&#x1E93D;">>>>,
    <<"&#x1E91C;", <<"&#x1E93E;">>>>, <<"&#x1E91D;", <<"&#x1E93F;">>>>,
    <<"&#x1E91E;", <<"&#x1E940;">>>>, <<"&#x1E91F;", <<"&#x1E941;">>>>,
    <<"&#x1E920;", <<"&#x1E942;">>>>, <<"&#x1E921;", <<"&#x1E943;">>>>
    }

LowerSources == {p[1] : p \in LowerPairs}

LowerChar(c) ==
    IF c \in LowerSources
    THEN (CHOOSE p \in LowerPairs : p[1] = c)[2]
    ELSE <<c>>

\* The cased code points: str.isupper, str.islower or title case.
Cased == {
    "A", "B", "C", "D", "E", "F", "G", "H", "I", "J", "K", "L", "M", "N", "O",
    "P", "Q", "R", "S", "T", "U", "V", "W", "X", "Y", "Z", "a", "b", "c", "d",
    "e", "f", "g", "h", "i", "j", "k", "l", "m", "n", "o", "p", "q", "r", "s",
    "t", "u", "v", "w", "x", "y", "z", "&#xAA;", "&#xB5;", "&#xBA;", "&#xC0;",
    "&#xC1;", "&#xC2;", "&#xC3;", "&#xC4;", "&#xC5;", "&#xC6;", "&#xC7;",
    "&#xC8;", "&#xC9;", "&#xCA;", "&#xCB;", "&#xCC;", "&#xCD;", "&#xCE;",
    "&#xCF;", "&#xD0;", "&#xD1;", "&#xD2;", "&#xD3;", "&#xD4;", "&#xD5;",
    "&#xD6;", "&#xD8;", "&#xD9;", "&#xDA;", "&#xDB;", "&#xDC;", "&#xDD;",
    "&#xDE;", "&#xDF;", "&#xE0;", "&#xE1;", "&#xE2;", "&#xE3;", "&#xE4;",
    "&#xE5;", "&#xE6;", "&#xE7;", "&#xE8;", "&#xE9;", "&#xEA;", "&#xEB;",
    "&#xEC;", "&#xED;", "&#xEE;", "&#xEF;", "&#xF0;", "&#xF1;", "&#xF2;",
    "&#xF3;", "&#xF4;", "&#xF5;", "&#xF6;", "&#xF8;", "&#xF9;", "&#xFA;",
    "&#xFB;", "&#xFC;", "&#xFD;", "&#xFE;", "&#xFF;", "&#x100;", "&#x101;",
    "&#x102;", "&#x103;", "&#x104;", "&#x105;", "&#x106;", "&#x107;",
    "&#x108;", "&#x109;", "&#x10A;", "&#x10B;", "&#x10C;", "&#x10D;",
    "&#x10E;", "&#x10F;", "&#x110;", "&#x111;", "&#x112;", "&#x113;",
    "&#x114;", "&#x115;", "&#x116;", "&#x117;", "&#x118;", "&#x119;",
    "&#x11A;", "&#x11B;", "&#x11C;", "&#x11D;", "&#x11E;", "&#x11F;",
    "&#x120;", "&#x121;", "&#x122;", "&#x123;", "&#x124;", "&#x125;",
    "&#x126;", "&#x127;", "&#x128;", "&#x129;", "&#x12A;", "&#x12B;",
    "&#x12C;", "&#x12D;", "&#x12E;", "&#x12F;", "&#x130;", "&#x131;",
    "&#x132;", "&#x133;", "&#x134;", "&#x135;", "&#x136;", "&#x137;",
    "&#x138;", "&#x139;", "&#x13A;", "&#x13B;", "&#x13C;", "&#x13D;",
    "&#x13E;", "&#x13F;", "&#x140;", "&#x141;", "&#x142;", "&#x143;",
    "&#x144;", "&#x145;", "&#x146;", "&#x147;", "&#x148;", "&#x149;",
    "&#x14A;", "&#x14B;", "&#x14C;", "&#x14D;", "&#x14E;", "&#x14F;",
    "&#x150;", "&#x151;", "&#x152;", "&#x153;", "&#x154;", "&#x155;",
    "&#x156;", "&#x157;", "&#x158;", "&#x159;", "&#x15A;", "&#x15B;",
    "&#x15C;", "&#x15D;", "&#x15E;", "&#x15F;", "&#x160;", "&#x161;",
    "&#x162;", "&#x163;", "&#x164;", "&#x165;", "&#x166;", "&#x167;",
    "&#x168;", "&#x169;", "&#x16A;", "&#x16B;", "&#x16C;", "&#x16D;",
    "&#x16E;", "&#x16F;", "&#x170;", "&#x171;", "&#x172;", "&#x173;",
    "&#x174;", "&#x175;", "&#x176;", "&#x177;", "&#x178;", "&#x179;",
    "&#x17A;", "&#x17B;", "&#x17C;", "&#x17D;", "&#x17E;", "&#x17F;",
    "&#x180;", "&#x181;", "&#x182;", "&#x183;", "&#x184;", "&#x185;",
    "&#x186;", "&#x187;", "&#x188;", "&#x189;", "&#x18A;", "&#x18B;",
    "&#x18C;", "&#x18D;", "&#x18E;", "&#x18F;", "&#x190;", "&#x191;",
    "&#x192;", "&#x193;", "&#x194;", "&#x195;", "&#x196;", "&#x197;",
    "&#x198;", "&#x199;", "&#x19A;", "&#x19B;", "&#x19C;", "&#x19D;",
    "&#x19E;", "&#x19F;", "&#x1A0;", "&#x1A1;", "&#x1A2;", "&#x1A3;",
    "&#x1A4;", "&#x1A5;", "&#x1A6;", "&#x1A7;", "&#x1A8;", "&#x1A9;",
    "&#x1AA;", "&#x1AB;", "&#x1AC;", "&#x1AD;", "&#x1AE;", "&#x1AF;",
    "&#x1B0;", "&#x1B1;", "&#x1B2;", "&#x1B3;", "&#x1B4;", "&#x1B5;",
    "&#x1B6;", "&#x1B7;", "&#x1B8;", "&#x1B9;", "&#x1BA;", "&#x1BC;",
    "&#x1BD;", "&#x1BE;", "&#x1BF;", "&#x1C4;", "&#x1C5;", "&#x1C6;",
    "&#x1C7;", "&#x1C8;", "&#x1C9;", "&#x1CA;", "&#x1CB;", "&#x1CC;",
    "&#x1CD;", "&#x1CE;", "&#x1CF;", "&#x1D0;", "&#x1D1;", "&#x1D2;",
    "&#x1D3;", "&#x1D4;", "&#x1D5;", "&#x1D6;", "&#x1D7;", "&#x1D8;",
    "&#x1D9;", "&#x1DA;", "&#x1DB;", "&#x1DC;", "&#x1DD;", "&#x1DE;",
    "&#x1DF;", "&#x1E0;", "&#x1E1;", "&#x1E2;", "&#x1E3;", "&#x1E4;",
    "&#x1E5;", "&#x1E6;", "&#x1E7;", "&#x1E8;", "&#x1E9;", "&#x1EA;",
    "&#x1EB;", "&#x1EC;", "&#x1ED;", "&#x1EE;", "&#x1EF;", "&#x1F0;",
    "&#x1F1;", "&#x1F2;", "&#x1F3;", "&#x1F4;", "&#x1F5;", "&#x1F6;",
    "&#x1F7;", "&#x1F8;", "&#x1F9;", "&#x1FA;", "&#x1FB;", "&#x1FC;",
    "&#x1FD;", "&#x1FE;", "&#x1FF;", "&#x200;", "&#x201;", "&#x202;",
    "&#x203;", "&#x204;", "&#x205;", "&#x206;", "&#x207;", "&#x208;",
    "&#x209;", "&#x20A;", "&#x20B;", "&#x20C;", "&#x20D;", "&#x20E;",
    "&#x20F;", "&#x210;", "&#x211;", "&#x212;", "&#x213;", "&#x214;",
    "&#x215;", "&#x216;", "&#x217;", "&#x218;", "&#x219;", "&#x21A;",
    "&#x21B;", "&#x21C;", "&#x21D;", "&#x21E;", "&#x21F;", "&#x220;",
    "&#x221;", "&#x222;", "&#x223;", "&#x224;", "&#x225;", "&#x226;",
    "&#x227;", "&#x228;", "&#x229;", "&#x22A;", "&#x22B;", "&#x22C;",
    "&#x22D;", "&#x22E;", "&#x22F;", "&#x230;", "&#x231;", "&#x232;",
    "&#x233;", "&#x234;", "&#x235;", "&#x236;", "&#x237;", "&#x238;",
    "&#x239;", "&#x23A;", "&#x23B;", "&#x23C;", "&#x23D;", "&#x23E;",
    "&#x23F;", "&#x240;", "&#x241;", "&#x242;", "&#x243;", "&#x244;",
    "&#x245;", "&#x246;", "&#x247;", "&#x248;", "&#x249;", "&#x24A;",
    "&#x24B;", "&#x24C;", "&#x24D;", "&#x24E;", "&#x24F;", "&#x250;",
    "&#x251;", "&#x252;", "&#x253;", "&#x254;", "&#x255;", "&#x256;",
    "&#x257;", "&#x258;", "&#x259;", "&#x25A;", "&#x25B;", "&#x25C;",
    "&#x25D;", "&#x25E;", "&#x25F;", "&#x260;", "&#x261;", "&#x262;",
    "&#x263;", "&#x264;", "&#x265;", "&#x266;", "&#x267;", "&#x268;",
    "&#x269;", "&#x26A;", "&#x26B;", "&#x26C;", "&#x26D;", "&#x26E;",
    "&#x26F;", "&#x270;", "&#x271;", "&#x272;", "&#x273;", "&#x274;",
    "&#x275;", "&#x276;", "&#x277;", "&#x278;", "&#x279;", "&#x27A;",
    "&#x27B;", "&#x27C;", "&#x27D;", "&#x27E;", "&#x27F;", "&#x280;",
    "&#x281;", "&#x282;", "&#x283;", "&#x284;", "&#x285;", "&#x286;",
    "&#x287;", "&#x288;", "&#x289;", "&#x28A;", "&#x28B;", "&#x28C;",
    "&#x28D;", "&#x28E;", "&#x28F;", "&#x290;", "&#x291;", "&#x292;",
    "&#x293;", "&#x295;", "&#x296;", "&#x297;", "&#x298;", "&#x299;",
    "&#x29A;", "&#x29B;", "&#x29C;", "&#x29D;", "&#x29E;", "&#x29F;",
    "&#x2A0;", "&#x2A1;", "&#x2A2;", "&#x2A3;", "&#x2A4;", "&#x2A5;",
    "&#x2A6;", "&#x2A7;", "&#x2A8;", "&#x2A9;", "&#x2AA;", "&#x2AB;",
    "&#x2AC;", "&#x2AD;", "&#x2AE;", "&#x2AF;", "&#x2B0;", "&#x2B1;",
    "&#x2B2;", "&#x2B3;", "&#x2B4;", "&#x2B5;", "&#x2B6;", "&#x2B7;",
    "&#x2B8;", "&#x2C0;", "&#x2C1;", "&#x2E0;", "&#x2E1;", "&#x2E2;",
    "&#x2E3;", "&#x2E4;", "&#x345;", "&#x370;", "&#x371;", "&#x372;",
    "&#x373;", "&#x376;", "&#x377;", "&#x37A;", "&#x37B;", "&#x37C;",
    "&#x37D;", "&#x37F;", "&#x386;", "&#x388;", "&#x389;", "&#x38A;",
    "&#x38C;", "&#x38E;", "&#x38F;", "&#x390;", "&#x391;", "&#x392;",
    "&#x393;", "&#x394;", "&#x395;", "&#x396;", "&#x397;", "&#x398;",
    "&#x399;", "&#x39A;", "&#x39B;", "&#x39C;", "&#x39D;", "&#x39E;",
    "&#x39F;", "&#x3A0;", "&#x3A1;", "&#x3A3;", "&#x3A4;", "&#x3A5;",
    "&#x3A6;", "&#x3A7;", "&#x3A8;", "&#x3A9;", "&#x3AA;", "&#x3AB;",
    "&#x3AC;", "&#x3AD;", "&#x3AE;", "&#x3AF;", "&#x3B0;", "&#x3B1;",
    "&#x3B2;", "&#x3B3;", "&#x3B4;", "&#x3B5;", "&#x3B6;", "&#x3B7;",
    "&#x3B8;", "&#x3B9;", "&#x3BA;", "&#x3BB;", "&#x3BC;", "&#x3BD;",
    "&#x3BE;", "&#x3BF;", "&#x3C0;", "&#x3C1;", "&#x3C2;", "&#x3C3;",
    "&#x3C4;", "&#x3C5;", "&#x3C6;", "&#x3C7;", "&#x3C8;", "&#x3C9;",
    "&#x3CA;", "&#x3CB;", "&#x3CC;", "&#x3CD;", "&#x3CE;", "&#x3CF;",
    "&#x3D0;", "&#x3D1;", "&#x3D2;", "&#x3D3;", "&#x3D4;", "&#x3D5;",
    "&#x3D6;", "&#x3D7;", "&#x3D8;", "&#x3D9;", "&#x3DA;", "&#x3DB;",
    "&#x3DC;", "&#x3DD;", "&#x3DE;", "&#x3DF;", "&#x3E0;", "&#x3E1;",
    "&#x3E2;", "&#x3E3;", "&#x3E4;", "&#x3E5;", "&#x3E6;", "&#x3E7;",
    "&#x3E8;", "&#x3E9;", "&#x3EA;", "&#x3EB;", "&#x3EC;", "&#x3ED;",
    "&#x3EE;", "&#x3EF;", "&#x3F0;", "&#x3F1;", "&#x3F2;", "&#x3F3;",
    "&#x3F4;", "&#x3F5;", "&#x3F7;", "&#x3F8;", "&#x3F9;", "&#x3FA;",
    "&#x3FB;", "&#x3FC;", "&#x3FD;", "&#x3FE;", "&#x3FF;", "&#x400;",
    "&#x401;", "&#x402;", "&#x403;", "&#x404;", "&#x405;", "&#x406;",
    "&#x407;", "&#x408;", "&#x409;", "&#x40A;", "&#x40B;", "&#x40C;",
    "&#x40D;", "&#x40E;", "&#x40F;", "&#x410;", "&#x411;", "&#x412;",
    "&#x413;", "&#x414;", "&#x415;", "&#x416;", "&#x417;", "&#x418;",
    "&#x419;", "&#x41A;", "&#x41B;", "&#x41C;", "&#x41D;", "&#x41E;",
    "&#x41F;", "&#x420;", "&#x421;", "&#x422;", "&#x423;", "&#x424;",
    "&#x425;", "&#x426;", "&#x427;", "&#x428;", "&#x429;", "&#x42A;",
    "&#x42B;", "&#x42C;", "&#x42D;", "&#x42E;", "&#x42F;", "&#x430;",
    "&#x431;", "&#x432;", "&#x433;", "&#x434;", "&#x435;", "&#x436;",
    "&#x437;", "&#x438;", "&#x439;", "&#x43A;", "&#x43B;", "&#x43C;",
    "&#x43D;", "&#x43E;", "&#x43F;", "&#x440;", "&#x441;", "&#x442;",
    "&#x443;", "&#x444;", "&#x445;", "&#x446;", "&#x447;", "&#x448;",
    "&#x449;", "&#x44A;", "&#x44B;", "&#x44C;", "&#x44D;", "&#x44E;",
    "&#x44F;", "&#x450;", "&#x451;", "&#x452;", "&#x453;", "&#x454;",
    "&#x455;", "&#x456;", "&#x457;", "&#x458;", "&#x459;", "&#x45A;",
    "&#x45B;", "&#x45C;", "&#x45D;", "&#x45E;", "&#x45F;", "&#x460;",
    "&#x461;", "&#x462;", "&#x463;", "&#x464;", "&#x465;", "&#x466;",
    "&#x467;", "&#x468;", "&#x469;", "&#x46A;", "&#x46B;", "&#x46C;",
    "&#x46D;", "&#x46E;", "&#x46F;", "&#x470;", "&#x471;", "&#x472;",
    "&#x473;", "&#x474;", "&#x475;", "&#x476;", "&#x477;", "&#x478;",
    "&#x479;", "&#x47A;", "&#x47B;", "&#x47C;", "&#x47D;", "&#x47E;",
    "&#x47F;", "&#x480;", "&#x481;", "&#x48A;", "&#x48B;", "&#x48C;",
    "&#x48D;", "&#x48E;", "&#x48F;", "&#x490;", "&#x491;", "&#x492;",
    "&#x493;", "&#x494;", "&#x495;", "&#x496;", "&#x497;", "&#x498;",
    "&#x499;", "&#x49A;", "&#x49B;", "&#x49C;", "&#x49D;", "&#x49E;",
    "&#x49F;", "&#x4A0;", "&#x4A1;", "&#x4A2;", "&#x4A3;", "&#x4A4;",
    "&#x4A5;", "&#x4A6;", "&#x4A7;", "&#x4A8;", "&#x4A9;", "&#x4AA;",
    "&#x4AB;", "&#x4AC;", "&#x4AD;", "&#x4AE;", "&#x4AF;", "&#x4B0;",
    "&#x4B1;", "&#x4B2;", "&#x4B3;", "&#x4B4;", "&#x4B5;", "&#x4B6;",
    "&#x4B7;", "&#x4B8;", "&#x4B9;", "&#x4BA;", "&#x4BB;", "&#x4BC;",
    "&#x4BD;", "&#x4BE;", "&#x4BF;", "&#x4C0;", "&#x4C1;", "&#x4C2;",
    "&#x4C3;", "&#x4C4;", "&#x4C5;", "&#x4C6;", "&#x4C7;", "&#x4C8;",
    "&#x4C9;", "&#x4CA;", "&#x4CB;", "&#x4CC;", "&#x4CD;", "&#x4CE;",
    "&#x4CF;", "&#x4D0;", "&#x4D1;", "&#x4D2;", "&#x4D3;", "&#x4D4;",
    "&#x4D5;", "&#x4D6;", "&#x4D7;", "&#x4D8;", "&#x4D9;", "&#x4DA;",
    "&#x4DB;", "&#x4DC;", "&#x4DD;", "&#x4DE;", "&#x4DF;", "&#x4E0;",
    "&#x4E1;", "&#x4E2;", "&#x4E3;", "&#x4E4;", "&#x4E5;", "&#x4E6;",
    "&#x4E7;", "&#x4E8;", "&#x4E9;", "&#x4EA;", "&#x4EB;", "&#x4EC;",
    "&#x4ED;", "&#x4EE;", "&#x4EF;", "&#x4F0;", "&#x4F1;", "&#x4F2;",
    "&#x4F3;", "&#x4F4;", "&#x4F5;", "&#x4F6;", "&#x4F7;", "&#x4F8;",
    "&#x4F9;", "&#x4FA;", "&#x4FB;", "&#x4FC;", "&#x4FD;", "&#x4FE;",
    "&#x4FF;", "&#x500;", "&#x501;", "&#x502;", "&#x503;", "&#x504;",
    "&#x505;", "&#x506;", "&#x507;", "&#x508;", "&#x509;", "&#x50A;",
    "&#x50B;", "&#x50C;", "&#x50D;", "&#x50E;", "&#x50F;", "&#x510;",
    "&#x511;", "&#x512;", "&#x513;", "&#x514;", "&#x515;", "&#x516;",
    "&#x517;", "&#x518;", "&#x519;", "&#x51A;", "&#x51B;", "&#x51C;",
    "&#x51D;", "&#x51E;", "&#x51F;", "&#x520;", "&#x521;", "&#x522;",
    "&#x523;", "&#x524;", "&#x525;", "&#x526;", "&#x527;", "&#x528;",
    "&#x529;", "&#x52A;", "&#x52B;", "&#x52C;", "&#x52D;", "&#x52E;",
    "&#x52F;", "&#x531;", "&#x532;", "&#x533;", "&#x534;", "&#x535;",
    "&#x536;", "&#x537;", "&#x538;", "&#x539;", "&#x53A;", "&#x53B;",
    "&#x53C;", "&#x53D;", "&#x53E;", "&#x53F;", "&#x540;", "&#x541;",
    "&#x542;", "&#x543;", "&#x544;", "&#x545;", "&#x546;", "&#x547;",
    "&#x548;", "&#x549;", "&#x54A;", "&#x54B;", "&#x54C;", "&#x54D;",
    "&#x54E;", "&#x54F;", "&#x550;", "&#x551;", "&#x552;", "&#x553;",
    "&#x554;", "&#x555;", "&#x556;", "&#x560;", "&#x561;", "&#x562;",
    "&#x563;", "&#x564;", "&#x565;", "&#x566;", "&#x567;", "&#x568;",
    "&#x569;", "&#x56A;", "&#x56B;", "&#x56C;", "&#x56D;", "&#x56E;",
    "&#x56F;", "&#x570;", "&#x571;", "&#x572;", "&#x573;", "&#x574;",
    "&#x575;", "&#x576;", "&#x577;", "&#x578;", "&#x579;", "&#x57A;",
    "&#x57B;", "&#x57C;", "&#x57D;", "&#x57E;", "&#x57F;", "&#x580;",
    "&#x581;", "&#x582;", "&#x583;", "&#x584;", "&#x585;", "&#x586;",
    "&#x587;", "&#x588;", "&#x10A0;", "&#x10A1;", "&#x10A2;", "&#x10A3;",
    "&#x10A4;", "&#x10A5;", "&#x10A6;", "&#x10A7;", "&#x10A8;", "&#x10A9;",
    "&#x10AA;", "&#x10AB;", "&#x10AC;", "&#x10AD;", "&#x10AE;", "&#x10AF;",
    "&#x10B0;", "&#x10B1;", "&#x10B2;", "&#x10B3;", "&#x10B4;", "&#x10B5;",
    "&#x10B6;", "&#x10B7;", "&#x10B8;", "&#x10B9;", "&#x10BA;", "&#x10BB;",
    "&#x10BC;", "&#x10BD;", "&#x10BE;", "&#x10BF;", "&#x10C0;", "&#x10C1;",
    "&#x10C2;", "&#x10C3;", "&#x10C4;", "&#x10C5;", "&#x10C7;", "&#x10CD;",
    "&#x10D0;", "&#x10D1;", "&#x10D2;", "&#x10D3;", "&#x10D4;", "&#x10D5;",
    "&#x10D6;", "&#x10D7;", "&#x10D8;", "&#x10D9;", "&#x10DA;", "&#x10DB;",
    "&#x10DC;", "&#x10DD;", "&#x10DE;", "&#x10DF;", "&#x10E0;", "&#x10E1;",
    "&#x10E2;", "&#x10E3;", "&#x10E4;", "&#x10E5;", "&#x10E6;", "&#x10E7;",
    "&#x10E8;", "&#x10E9;", "&#x10EA;", "&#x10EB;", "&#x10EC;", "&#x10ED;",
    "&#x10EE;", "&#x10EF;", "&#x10F0;", "&#x10F1;", "&#x10F2;", "&#x10F3;",
    "&#x10F4;", "&#x10F5;", "&#x10F6;", "&#x10F7;", "&#x10F8;", "&#x10F9;",
    "&#x10FA;", "&#x10FD;", "&#x10FE;", "&#x10FF;", "&#x13A0;", "&#x13A1;",
    "&#x13A2;", "&#x13A3;", "&#x13A4;", "&#x13A5;", "&#x13A6;", "&#x13A7;",
    "&#x13A8;", "&#x13A9;", "&#x13AA;", "&#x13AB;", "&#x13AC;", "&#x13AD;",
    "&#x13AE;", "&#x13AF;", "&#x13B0;", "&#x13B1;", "&#x13B2;", "&#x13B3;",
    "&#x13B4;", "&#x13B5;", "&#x13B6;", "&#x13B7;", "&#x13B8;", "&#x13B9;",
    "&#x13BA;", "&#x13BB;", "&#x13BC;", "&#x13BD;", "&#x13BE;", "&#x13BF;",
    "&#x13C0;", "&#x13C1;", "&#x13C2;", "&#x13C3;", "&#x13C4;", "&#x13C5;",
    "&#x13C6;", "&#x13C7;", "&#x13C8;", "&#x13C9;", "&#x13CA;", "&#x13CB;",
    "&#x13CC;", "&#x13CD;", "&#x13CE;", "&#x13CF;", "&#x13D0;", "&#x13D1;",
    "&#x13D2;", "&#x13D3;", "&#x13D4;", "&#x13D5;", "&#x13D6;", "&#x13D7;",
    "&#x13D8;", "&#x13D9;", "&#x13DA;", "&#x13DB;", "&#x13DC;", "&#x13DD;",
    "&#x13DE;", "&#x13DF;", "&#x13E0;", "&#x13E1;", "&#x13E2;", "&#x13E3;",
    "&#x13E4;", "&#x13E5;", "&#x13E6;", "&#x13E7;", "&#x13E8;", "&#x13E9;",
    "&#x13EA;", "&#x13EB;", "&#x13EC;", "&#x13ED;", "&#x13EE;", "&#x13EF;",
    "&#x13F0;", "&#x13F1;", "&#x13F2;", "&#x13F3;", "&#x13F4;", "&#x13F5;",
    "&#x13F8;", "&#x13F9;", "&#x13FA;", "&#x13FB;", "&#x13FC;", "&#x13FD;",
    "&#x1C80;", "&#x1C81;", "&#x1C82;", "&#x1C83;", "&#x1C84;", "&#x1C85;",
    "&#x1C86;", "&#x1C87;", "&#x1C88;", "&#x1C90;", "&#x1C91;", "&#x1C92;",
    "&#x1C93;", "&#x1C94;", "&#x1C95;", "&#x1C96;", "&#x1C97;", "&#x1C98;",
    "&#x1C99;", "&#x1C9A;", "&#x1C9B;", "&#x1C9C;", "&#x1C9D;", "&#x1C9E;",
    "&#x1C9F;", "&#x1CA0;", "&#x1CA1;", "&#x1CA2;", "&#x1CA3;", "&#x1CA4;",
    "&#x1CA5;", "&#x1CA6;", "&#x1CA7;", "&#x1CA8;", "&#x1CA9;", "&#x1CAA;",
    "&#x1CAB;", "&#x1CAC;", "&#x1CAD;", "&#x1CAE;", "&#x1CAF;", "&#x1CB0;",
    "&#x1CB1;", "&#x1CB2;", "&#x1CB3;", "&#x1CB4;", "&#x1CB5;", "&#x1CB6;",
    "&#x1CB7;", "&#x1CB8;", "&#x1CB9;", "&#x1CBA;", "&#x1CBD;", "&#x1CBE;",
    "&#x1CBF;", "&#x1D00;", "&#x1D01;", "&#x1D02;", "&#x1D03;", "&#x1D04;",
    "&#x1D05;", "&#x1D06;", "&#x1D07;", "&#x1D08;", "&#x1D09;", "&#x1D0A;",
    "&#x1D0B;", "&#x1D0C;", "&#x1D0D;", "&#x1D0E;", "&#x1D0F;", "&#x1D10;",
    "&#x1D11;", "&#x1D12;", "&#x1D13;", "&#x1D14;", "&#x1D15;", "&#x1D16;",
    "&#x1D17;", "&#x1D18;", "&#x1D19;", "&#x1D1A;", "&#x1D1B;", "&#x1D1C;",
    "&#x1D1D;", "&#x1D1E;", "&#x1D1F;", "&#x1D20;", "&#x1D21;", "&#x1D22;",
    "&#x1D23;", "&#x1D24;", "&#x1D25;", "&#x1D26;", "&#x1D27;", "&#x1D28;",
    "&#x1D29;", "&#x1D2A;", "&#x1D2B;", "&#x1D2C;", "&#x1D2D;", "&#x1D2E;",
    "&#x1D2F;", "&#x1D30;", "&#x1D31;", "&#x1D32;", "&#x1D33;", "&#x1D34;",
    "&#x1D35;", "&#x1D36;", "&#x1D37;", "&#x1D38;", "&#x1D39;", "&#x1D3A;",
    "&#x1D3B;", "&#x1D3C;", "&#x1D3D;", "&#x1D3E;", "&#x1D3F;", "&#x1D40;",
    "&#x1D41;", "&#x1D42;", "&#x1D43;", "&#x1D44;", "&#x1D45;", "&#x1D46;",
    "&#x1D47;", "&#x1D48;", "&#x1D49;", "&#x1D4A;", "&#x1D4B;", "&#x1D4C;",
    "&#x1D4D;", "&#x1D4E;", "&#x1D4F;", "&#x1D50;", "&#x1D51;", "&#x1D52;",
    "&#x1D53;", "&#x1D54;", "&#x1D55;", "&#x1D56;", "&#x1D57;", "&#x1D58;",
    "&#x1D59;", "&#x1D5A;", "&#x1D5B;", "&#x1D5C;", "&#x1D5D;", "&#x1D5E;",
    "&#x1D5F;", "&#x1D60;", "&#x1D61;", "&#x1D62;", "&#x1D63;", "&#x1D64;",
    "&#x1D65;", "&#x1D66;", "&#x1D67;", "&#x1D68;", "&#x1D69;", "&#x1D6A;",
    "&#x1D6B;", "&#x1D6C;", "&#x1D6D;", "&#x1D6E;", "&#x1D6F;", "&#x1D70;",
    "&#x1D71;", "&#x1D72;", "&#x1D73;", "&#x1D74;", "&#x1D75;", "&#x1D76;",
    "&#x1D77;", "&#x1D78;", "&#x1D79;", "&#x1D7A;", "&#x1D7B;", "&#x1D7C;",
    "&#x1D7D;", "&#x1D7E;", "&#x1D7F;", "&#x1D80;", "&#x1D81;", "&#x1D82;",
    "&#x1D83;", "&#x1D84;", "&#x1D85;", "&#x1D86;", "&#x1D87;", "&#x1D88;",
    "&#x1D89;", "&#x1D8A;", "&#x1D8B;", "&#x1D8C;", "&#x1D8D;", "&#x1D8E;",
    "&#x1D8F;", "&#x1D90;", "&#x1D91;", "&#x1D92;", "&#x1D93;", "&#x1D94;",
    "&#x1D95;", "&#x1D96;", "&#x1D97;", "&#x1D98;", "&#x1D99;", "&#x1D9A;",
    "&#x1D9B;", "&#x1D9C;", "&#x1D9D;", "&#x1D9E;", "&#x1D9F;", "&#x1DA0;",
    "&#x1DA1;", "&#x1DA2;", "&#x1DA3;", "&#x1DA4;", "&#x1DA5;", "&#x1DA6;",
    "&#x1DA7;", "&#x1DA8;", "&#x1DA9;", "&#x1DAA;", "&#x1DAB;", "&#x1DAC;",
    "&#x1DAD;", "&#x1DAE;", "&#x1DAF;", "&#x1DB0;", "&#x1DB1;", "&#x1DB2;",
    "&#x1DB3;", "&#x1DB4;", "&#x1DB5;", "&#x1DB6;", "&#x1DB7;", "&#x1DB8;",
    "&#x1DB9;", "&#x1DBA;", "&#x1DBB;", "&#x1DBC;", "&#x1DBD;", "&#x1DBE;",
    "&#x1DBF;", "&#x1E00;", "&#x1E01;", "&#x1E02;", "&#x1E03;", "&#x1E04;",
    "&#x1E05;", "&#x1E06;", "&#x1E07;", "&#x1E08;", "&#x1E09;", "&#x1E0A;",
    "&#x1E0B;", "&#x1E0C;", "&#x1E0D;", "&#x1E0E;", "&#x1E0F;", "&#x1E10;",
    "&#x1E11;", "&#x1E12;", "&#x1E13;", "&#x1E14;", "&#x1E15;", "&#x1E16;",
    "&#x1E17;", "&#x1E18;", "&#x1E19;", "&#x1E1A;", "&#x1E1B;", "&#x1E1C;",
    "&#x1E1D;", "&#x1E1E;", "&#x1E1F;", "&#x1E20;", "&#x1E21;", "&#x1E22;",
    "&#x1E23;", "&#x1E24;", "&#x1E25;", "&#x1E26;", "&#x1E27;", "&#x1E28;",
    "&#x1E29;", "&#x1E2A;", "&#x1E2B;", "&#x1E2C;", "&#x1E2D;", "&#x1E2E;",
    "&#x1E2F;", "&#x1E30;", "&#x1E31;", "&#x1E32;", "&#x1E33;", "&#x1E34;",
    "&#x1E35;", "&#x1E36;", "&#x1E37;", "&#x1E38;", "&#x1E39;", "&#x1E3A;",
    "&#x1E3B;", "&#x1E3C;", "&#x1E3D;", "&#x1E3E;", "&#x1E3F;", "&#x1E40;",
    "&#x1E41;", "&#x1E42;", "&#x1E43;", "&#x1E44;", "&#x1E45;", "&#x1E46;",
    "&#x1E47;", "&#x1E48;", "&#x1E49;", "&#x1E4A;", "&#x1E4B;", "&#x1E4C;",
    "&#x1E4D;", "&#x1E4E;", "&#x1E4F;", "&#x1E50;", "&#x1E51;", "&#x1E52;",
    "&#x1E53;", "&#x1E54;", "&#x1E55;", "&#x1E56;", "&#x1E57;", "&#x1E58;",
    "&#x1E59;", "&#x1E5A;", "&#x1E5B;", "&#x1E5C;", "&#x1E5D;", "&#x1E5E;",
    "&#x1E5F;", "&#x1E60;", "&#x1E61;", "&#x1E62;", "&#x1E63;", "&#x1E64;",
    "&#x1E65;", "&#x1E66;", "&#x1E67;", "&#x1E68;", "&#x1E69;", "&#x1E6A;",
    "&#x1E6B;", "&#x1E6C;", "&#x1E6D;", "&#x1E6E;", "&#x1E6F;", "&#x1E70;",
    "&#x1E71;", "&#x1E72;", "&#x1E73;", "&#x1E74;", "&#x1E75;", "&#x1E76;",
    "&#x1E77;", "&#x1E78;", "&#x1E79;", "&#x1E7A;", "&#x1E7B;", "&#x1E7C;",
    "&#x1E7D;", "&#x1E7E;", "&#x1E7F;", "&#x1E80;", "&#x1E81;", "&#x1E82;",
    "&#x1E83;", "&#x1E84;", "&#x1E85;", "&#x1E86;", "&#x1E87;", "&#x1E88;",
    "&#x1E89;", "&#x1E8A;", "&#x1E8B;", "&#x1E8C;", "&#x1E8D;", "&#x1E8E;",
    "&#x1E8F;", "&#x1E90;", "&#x1E91;", "&#x1E92;", "&#x1E93;", "&#x1E94;",
    "&#x1E95;", "&#x1E96;", "&#x1E97;", "&#x1E98;", "&#x1E99;", "&#x1E9A;",
    "&#x1E9B;", "&#x1E9C;", "&#x1E9D;", "&#x1E9E;", "&#x1E9F;", "&#x1EA0;",
    "&#x1EA1;", "&#x1EA2;", "&#x1EA3;", "&#x1EA4;", "&#x1EA5;", "&#x1EA6;",
    "&#x1EA7;", "&#x1EA8;", "&#x1EA9;", "&#x1EAA;", "&#x1EAB;", "&#x1EAC;",
    "&#x1EAD;", "&#x1EAE;", "&#x1EAF;", "&#x1EB0;", "&#x1EB1;", "&#x1EB2;",
    "&#x1EB3;", "&#x1EB4;", "&#x1EB5;", "&#x1EB6;", "&#x1EB7;", "&#x1EB8;",
    "&#x1EB9;", "&#x1EBA;", "&#x1EBB;", "&#x1EBC;", "&#x1EBD;", "&#x1EBE;",
    "&#x1EBF;", "&#x1EC0;", "&#x1EC1;", "&#x1EC2;", "&#x1EC3;", "&#x1EC4;",
    "&#x1EC5;", "&#x1EC6;", "&#x1EC7;", "&#x1EC8;", "&#x1EC9;", "&#x1ECA;",
    "&#x1ECB;", "&#x1ECC;", "&#x1ECD;", "&#x1ECE;", "&#x1ECF;", "&#x1ED0;",
    "&#x1ED1;", "&#x1ED2;", "&#x1ED3;", "&#x1ED4;", "&#x1ED5;", "&#x1ED6;",
    "&#x1ED7;", "&#x1ED8;", "&#x1ED9;", "&#x1EDA;", "&#x1EDB;", "&#x1EDC;",
    "&#x1EDD;", "&#x1EDE;", "&#x1EDF;", "&#x1EE0;", "&#x1EE1;", "&#x1EE2;",
    "&#x1EE3;", "&#x1EE4;", "&#x1EE5;", "&#x1EE6;", "&#x1EE7;", "&#x1EE8;",
    "&#x1EE9;", "&#x1EEA;", "&#x1EEB;", "&#x1EEC;", "&#x1EED;", "&#x1EEE;",
    "&#x1EEF;", "&#x1EF0;", "&#x1EF1;", "&#x1EF2;", "&#x1EF3;", "&#x1EF4;",
    "&#x1EF5;", "&#x1EF6;", "&#x1EF7;", "&#x1EF8;", "&#x1EF9;", "&#x1EFA;",
    "&#x1EFB;", "&#x1EFC;", "&#x1EFD;", "&#x1EFE;", "&#x1EFF;", "&#x1F00;",
    "&#x1F01;", "&#x1F02;", "&#x1F03;", "&#x1F04;", "&#x1F05;", "&#x1F06;",
    "&#x1F07;", "&#x1F08;", "&#x1F09;", "&#x1F0A;", "&#x1F0B;", "&#x1F0C;",
    "&#x1F0D;", "&#x1F0E;", "&#x1F0F;", "&#x1F10;", "&#x1F11;", "&#x1F12;",
    "&#x1F13;", "&#x1F14;", "&#x1F15;", "&#x1F18;", "&#x1F19;", "&#x1F1A;",
    "&#x1F1B;", "&#x1F1C;", "&#x1F1D;", "&#x1F20;", "&#x1F21;", "&#x1F22;",
    "&#x1F23;", "&#x1F24;", "&#x1F25;", "&#x1F26;", "&#x1F27;", "&#x1F28;",
    "&#x1F29;", "&#x1F2A;", "&#x1F2B;", "&#x1F2C;", "&#x1F2D;", "&#x1F2E;",
    "&#x1F2F;", "&#x1F30;", "&#x1F31;", "&#x1F32;", "&#x1F33;", "&#x1F34;",
    "&#x1F35;", "&#x1F36;", "&#x1F37;", "&#x1F38;", "&#x1F39;", "&#x1F3A;",
    "&#x1F3B;", "&#x1F3C;", "&#x1F3D;", "&#x1F3E;", "&#x1F3F;", "&#x1F40;",
    "&#x1F41;", "&#x1F42;", "&#x1F43;", "&#x1F44;", "&#x1F45;", "&#x1F48;",
    "&#x1F49;", "&#x1F4A;", "&#x1F4B;", "&#x1F4C;", "&#x1F4D;", "&#x1F50;",
    "&#x1F51;", "&#x1F52;", "&#x1F53;", "&#x1F54;", "&#x1F55;", "&#x1F56;",
    "&#x1F57;", "&#x1F59;", "&#x1F5B;", "&#x1F5D;", "&#x1F5F;", "&#x1F60;",
    "&#x1F61;", "&#x1F62;", "&#x1F63;", "&#x1F64;", "&#x1F65;", "&#x1F66;",
    "&#x1F67;", "&#x1F68;", "&#x1F69;", "&#x1F6A;", "&#x1F6B;", "&#x1F6C;",
    "&#x1F6D;", "&#x1F6E;", "&#x1F6F;", "&#x1F70;", "&#x1F71;", "&#x1F72;",
    "&#x1F73;", "&#x1F74;", "&#x1F75;", "&#x1F76;", "&#x1F77;", "&#x1F78;",
    "&#x1F79;", "&#x1F7A;", "&#x1F7B;", "&#x1F7C;", "&#x1F7D;", "&#x1F80;",
    "&#x1F81;", "&#x1F82;", "&#x1F83;", "&#x1F84;", "&#x1F85;", "&#x1F86;",
    "&#x1F87;", "&#x1F88;", "&#x1F89;", "&#x1F8A;", "&#x1F8B;", "&#x1F8C;",
    "&#x1F8D;", "&#x1F8E;", "&#x1F8F;", "&#x1F90;", "&#x1F91;", "&#x1F92;",
    "&#x1F93;", "&#x1F94;", "&#x1F95;", "&#x1F96;", "&#x1F97;", "&#x1F98;",
    "&#x1F99;", "&#x1F9A;", "&#x1F9B;", "&#x1F9C;", "&#x1F9D;", "&#x1F9E;",
    "&#x1F9F;", "&#x1FA0;", "&#x1FA1;", "&#x1FA2;", "&#x1FA3;", "&#x1FA4;",
    "&#x1FA5;", "&#x1FA6;", "&#x1FA7;", "&#x1FA8;", "&#x1FA9;", "&#x1FAA;",
    "&#x1FAB;", "&#x1FAC;", "&#x1FAD;", "&#x1FAE;", "&#x1FAF;", "&#x1FB0;",
    "&#x1FB1;", "&#x1FB2;", "&#x1FB3;", "&#x1FB4;", "&#x1FB6;", "&#x1FB7;",
    "&#x1FB8;", "&#x1FB9;", "&#x1FBA;", "&#x1FBB;", "&#x1FBC;", "&#x1FBE;",
    "&#x1FC2;", "&#x1FC3;", "&#x1FC4;", "&#x1FC6;", "&#x1FC7;", "&#x1FC8;",
    "&#x1FC9;", "&#x1FCA;", "&#x1FCB;", "&#x1FCC;", "&#x1FD0;", "&#x1FD1;",
    "&#x1FD2;", "&#x1FD3;", "&#x1FD6;", "&#x1FD7;", "&#x1FD8;", "&#x1FD9;",
    "&#x1FDA;", "&#x1FDB;", "&#x1FE0;", "&#x1FE1;", "&#x1FE2;", "&#x1FE3;",
    "&#x1FE4;", "&#x1FE5;", "&#x1FE6;", "&#x1FE7;", "&#x1FE8;", "&#x1FE9;",
    "&#x1FEA;", "&#x1FEB;", "&#x1FEC;", "&#x1FF2;", "&#x1FF3;", "&#x1FF4;",
    "&#x1FF6;", "&#x1FF7;", "&#x1FF8;", "&#x1FF9;", "&#x1FFA;", "&#x1FFB;",
    "&#x1FFC;", "&#x2071;", "&#x207F;", "&#x2090;", "&#x2091;", "&#x2092;",
    "&#x2093;", "&#x2094;", "&#x2095;", "&#x2096;", "&#x2097;", "&#x2098;",
    "&#x2099;", "&#x209A;", "&#x209B;", "&#x209C;", "&#x2102;", "&#x2107;",
    "&#x210A;", "&#x210B;", "&#x210C;", "&#x210D;", "&#x210E;", "&#x210F;",
    "&#x2110;", "&#x2111;", "&#x2112;", "&#x2113;", "&#x2115;", "&#x2119;",
    "&#x211A;", "&#x211B;", "&#x211C;", "&#x211D;", "&#x2124;", "&#x2126;",
    "&#x2128;", "&#x212A;", "&#x212B;", "&#x212C;", "&#x212D;", "&#x212F;",
    "&#x2130;", "&#x2131;", "&#x2132;", "&#x2133;", "&#x2134;", "&#x2139;",
    "&#x213C;", "&#x213D;", "&#x213E;", "&#x213F;", "&#x2145;", "&#x2146;",
    "&#x2147;", "&#x2148;", "&#x2149;", "&#x214E;", "&#x2160;", "&#x2161;",
    "&#x2162;", "&#x2163;", "&#x2164;", "&#x2165;", "&#x2166;", "&#x2167;",
    "&#x2168;", "&#x2169;", "&#x216A;", "&#x216B;", "&#x216C;", "&#x216D;",
    "&#x216E;", "&#x216F;", "&#x2170;", "&#x2171;", "&#x2172;", "&#x2173;",
    "&#x2174;", "&#x2175;", "&#x2176;", "&#x2177;", "&#x2178;", "&#x2179;",
    "&#x217A;", "&#x217B;", "&#x217C;", "&#x217D;", "&#x217E;", "&#x217F;",
    "&#x2183;", "&#x2184;", "&#x24B6;", "&#x24B7;", "&#x24B8;", "&#x24B9;",
    "&#x24BA;", "&#x24BB;", "&#x24BC;", "&#x24BD;", "&#x24BE;", "&#x24BF;",
    "&#x24C0;", "&#x24C1;", "&#x24C2;", "&#x24C3;", "&#x24C4;", "&#x24C5;",
    "&#x24C6;", "&#x24C7;", "&#x24C8;", "&#x24C9;", "&#x24CA;", "&#x24CB;",
    "&#x24CC;", "&#x24CD;", "&#x24CE;", "&#x24CF;", "&#x24D0;", "&#x24D1;",
    "&#x24D2;", "&#x24D3;", "&#x24D4;", "&#x24D5;", "&#x24D6;", "&#x24D7;",
    "&#x24D8;", "&#x24D9;", "&#x24DA;", "&#x24DB;", "&#x24DC;", "&#x24DD;",
    "&#x24DE;", "&#x24DF;", "&#x24E0;", "&#x24E1;", "&#x24E2;", "&#x24E3;",
    "&#x24E4;", "&#x24E5;", "&#x24E6;", "&#x24E7;", "&#x24E8;", "&#x24E9;",
    "&#x2C00;", "&#x2C01;", "&#x2C02;", "&#x2C03;", "&#x2C04;", "&#x2C05;",
    "&#x2C06;", "&#x2C07;", "&#x2C08;", "&#x2C09;", "&#x2C0A;", "&#x2C0B;",
    "&#x2C0C;", "&#x2C0D;", "&#x2C0E;", "&#x2C0F;", "&#x2C10;", "&#x2C11;",
    "&#x2C12;", "&#x2C13;", "&#x2C14;", "&#x2C15;", "&#x2C16;", "&#x2C17;",
    "&#x2C18;", "&#x2C19;", "&#x2C1A;", "&#x2C1B;", "&#x2C1C;", "&#x2C1D;",
    "&#x2C1E;", "&#x2C1F;", "&#x2C20;", "&#x2C21;", "&#x2C22;", "&#x2C23;",
    "&#x2C24;", "&#x2C25;", "&#x2C26;", "&#x2C27;", "&#x2C28;", "&#x2C29;",
    "&#x2C2A;", "&#x2C2B;", "&#x2C2C;", "&#x2C2D;", "&#x2C2E;", "&#x2C2F;",
    "&#x2C30;", "&#x2C31;", "&#x2C32;", "&#x2C33;", "&#x2C34;", "&#x2C35;",
    "&#x2C36;", "&#x2C37;", "&#x2C38;", "&#x2C39;", "&#x2C3A;", "&#x2C3B;",
    "&#x2C3C;", "&#x2C3D;", "&#x2C3E;", "&#x2C3F;", "&#x2C40;", "&#x2C41;",
    "&#x2C42;", "&#x2C43;", "&#x2C44;", "&#x2C45;", "&#x2C46;", "&#x2C47;",
    "&#x2C48;", "&#x2C49;", "&#x2C4A;", "&#x2C4B;", "&#x2C4C;", "&#x2C4D;",
    "&#x2C4E;", "&#x2C4F;", "&#x2C50;", "&#x2C51;", "&#x2C52;", "&#x2C53;",
    "&#x2C54;", "&#x2C55;", "&#x2C56;", "&#x2C57;", "&#x2C58;", "&#x2C59;",
    "&#x2C5A;", "&#x2C5B;", "&#x2C5C;", "&#x2C5D;", "&#x2C5E;", "&#x2C5F;",
    "&#x2C60;", "&#x2C61;", "&#x2C62;", "&#x2C63;", "&#x2C64;", "&#x2C65;",
    "&#x2C66;", "&#x2C67;", "&#x2C68;", "&#x2C69;", "&#x2C6A;", "&#x2C6B;",
    "&#x2C6C;", "&#x2C6D;", "&#x2C6E;", "&#x2C6F;", "&#x2C70;", "&#x2C71;",
    "&#x2C72;", "&#x2C73;", "&#x2C74;", "&#x2C75;", "&#x2C76;", "&#x2C77;",
    "&#x2C78;", "&#x2C79;", "&#x2C7A;", "&#x2C7B;", "&#x2C7C;", "&#x2C7D;",
    "&#x2C7E;", "&#x2C7F;", "&#x2C80;", "&#x2C81;", "&#x2C82;", "&#x2C83;",
    "&#x2C84;", "&#x2C85;", "&#x2C86;", "&#x2C87;", "&#x2C88;", "&#x2C89;",
    "&#x2C8A;", "&#x2C8B;", "&#x2C8C;", "&#x2C8D;", "&#x2C8E;", "&#x2C8F;",
    "&#x2C90;", "&#x2C91;", "&#x2C92;", "&#x2C93;", "&#x2C94;", "&#x2C95;",
    "&#x2C96;", "&#x2C97;", "&#x2C98;", "&#x2C99;", "&#x2C9A;", "&#x2C9B;",
    "&#x2C9C;", "&#x2C9D;", "&#x2C9E;", "&#x2C9F;", "&#x2CA0;", "&#x2CA1;",
    "&#x2CA2;", "&#x2CA3;", "&#x2CA4;", "&#x2CA5;", "&#x2CA6;", "&#x2CA7;",
    "&#x2CA8;", "&#x2CA9;", "&#x2CAA;", "&#x2CAB;", "&#x2CAC;", "&#x2CAD;",
    "&#x2CAE;", "&#x2CAF;", "&#x2CB0;", "&#x2CB1;", "&#x2CB2;", "&#x2CB3;",
    "&#x2CB4;", "&#x2CB5;", "&#x2CB6;", "&#x2CB7;", "&#x2CB8;", "&#x2CB9;",
    "&#x2CBA;", "&#x2CBB;", "&#x2CBC;", "&#x2CBD;", "&#x2CBE;", "&#x2CBF;",
    "&#x2CC0;", "&#x2CC1;", "&#x2CC2;", "&#x2CC3;", "&#x2CC4;", "&#x2CC5;",
    "&#x2CC6;", "&#x2CC7;", "&#x2CC8;", "&#x2CC9;", "&#x2CCA;", "&#x2CCB;",
    "&#x2CCC;", "&#x2CCD;", "&#x2CCE;", "&#x2CCF;", "&#x2CD0;", "&#x2CD1;",
    "&#x2CD2;", "&#x2CD3;", "&#x2CD4;", "&#x2CD5;", "&#x2CD6;", "&#x2CD7;",
    "&#x2CD8;", "&#x2CD9;", "&#x2CDA;", "&#x2CDB;", "&#x2CDC;", "&#x2CDD;",
    "&#x2CDE;", "&#x2CDF;", "&#x2CE0;", "&#x2CE1;", "&#x2CE2;", "&#x2CE3;",
    "&#x2CE4;", "&#x2CEB;", "&#x2CEC;", "&#x2CED;", "&#x2CEE;", "&#x2CF2;",
    "&#x2CF3;", "&#x2D00;", "&#x2D01;", "&#x2D02;", "&#x2D03;", "&#x2D04;",
    "&#x2D05;", "&#x2D06;", "&#x2D07;", "&#x2D08;", "&#x2D09;", "&#x2D0A;",
    "&#x2D0B;", "&#x2D0C;", "&#x2D0D;", "&#x2D0E;", "&#x2D0F;", "&#x2D10;",
    "&#x2D11;", "&#x2D12;", "&#x2D13;", "&#x2D14;", "&#x2D15;", "&#x2D16;",
    "&#x2D17;", "&#x2D18;", "&#x2D19;", "&#x2D1A;", "&#x2D1B;", "&#x2D1C;",
    "&#x2D1D;", "&#x2D1E;", "&#x2D1F;", "&#x2D20;", "&#x2D21;", "&#x2D22;",
    "&#x2D23;", "&#x2D24;", "&#x2D25;", "&#x2D27;", "&#x2D2D;", "&#xA640;",
    "&#xA641;", "&#xA642;", "&#xA643;", "&#xA644;", "&#xA645;", "&#xA646;",
    "&#xA647;", "&#xA648;", "&#xA649;", "&#xA64A;", "&#xA64B;", "&#xA64C;",
    "&#xA64D;", "&#xA64E;", "&#xA64F;", "&#xA650;", "&#xA651;", "&#xA652;",
    "&#xA653;", "&#xA654;", "&#xA655;", "&#xA656;", "&#xA657;", "&#xA658;",
    "&#xA659;", "&#xA65A;", "&#xA65B;", "&#xA65C;", "&#xA65D;", "&#xA65E;",
    "&#xA65F;", "&#xA660;", "&#xA661;", "&#xA662;", "&#xA663;", "&#xA664;",
    "&#xA665;", "&#xA666;", "&#xA667;", "&#xA668;", "&#xA669;", "&#xA66A;",
    "&#xA66B;", "&#xA66C;", "&#xA66D;", "&#xA680;", "&#xA681;", "&#xA682;",
    "&#xA683;", "&#xA684;", "&#xA685;", "&#xA686;", "&#xA687;", "&#xA688;",
    "&#xA689;", "&#xA68A;", "&#xA68B;", "&#xA68C;", "&#xA68D;", "&#xA68E;",
    "&#xA68F;", "&#xA690;", "&#xA691;", "&#xA692;", "&#xA693;", "&#xA694;",
    "&#xA695;", "&#xA696;", "&#xA697;", "&#xA698;", "&#xA699;", "&#xA69A;",
    "&#xA69B;", "&#xA69C;", "&#xA69D;", "&#xA722;", "&#xA723;", "&#xA724;",
    "&#xA725;", "&#xA726;", "&#xA727;", "&#xA728;", "&#xA729;", "&#xA72A;",
    "&#xA72B;", "&#xA72C;", "&#xA72D;", "&#xA72E;", "&#xA72F;", "&#xA730;",
    "&#xA731;", "&#xA732;", "&#xA733;", "&#xA734;", "&#xA735;", "&#xA736;",
    "&#xA737;", "&#xA738;", "&#xA739;", "&#xA73A;", "&#xA73B;", "&#xA73C;",
    "&#xA73D;", "&#xA73E;", "&#xA73F;", "&#xA740;", "&#xA741;", "&#xA742;",
    "&#xA743;", "&#xA744;", "&#xA745;", "&#xA746;", "&#xA747;", "&#xA748;",
    "&#xA749;", "&#xA74A;", "&#xA74B;", "&#xA74C;", "&#xA74D;", "&#xA74E;",
    "&#xA74F;", "&#xA750;", "&#xA751;", "&#xA752;", "&#xA753;", "&#xA754;",
    "&#xA755;", "&#xA756;", "&#xA757;", "&#xA758;", "&#xA759;", "&#xA75A;",
    "&#xA75B;", "&#xA75C;", "&#xA75D;", "&#xA75E;", "&#xA75F;", "&#xA760;",
    "&#xA761;", "&#xA762;", "&#xA763;", "&#xA764;", "&#xA765;", "&#xA766;",
    "&#xA767;", "&#xA768;", "&#xA769;", "&#xA76A;", "&#xA76B;", "&#xA76C;",
    "&#xA76D;", "&#xA76E;", "&#xA76F;", "&#xA770;", "&#xA771;", "&#xA772;",
    "&#xA773;", "&#xA774;", "&#xA775;", "&#xA776;", "&#xA777;", "&#xA778;",
    "&#xA779;", "&#xA77A;", "&#xA77B;", "&#xA77C;", "&#xA77D;", "&#xA77E;",
    "&#xA77F;", "&#xA780;", "&#xA781;", "&#xA782;", "&#xA783;", "&#xA784;",
    "&#xA785;", "&#xA786;", "&#xA787;", "&#xA78B;", "&#xA78C;", "&#xA78D;",
    "&#xA78E;", "&#xA790;", "&#xA791;", "&#xA792;", "&#xA793;", "&#xA794;",
    "&#xA795;", "&#xA796;", "&#xA797;", "&#xA798;", "&#xA799;", "&#xA79A;",
    "&#xA79B;", "&#xA79C;", "&#xA79D;", "&#xA79E;", "&#xA79F;", "&#xA7A0;",
    "&#xA7A1;", "&#xA7A2;", "&#xA7A3;", "&#xA7A4;", "&#xA7A5;", "&#xA7A6;",
    "&#xA7A7;", "&#xA7A8;", "&#xA7A9;", "&#xA7AA;", "&#xA7AB;", "&#xA7AC;",
    "&#xA7AD;", "&#xA7AE;", "&#xA7AF;", "&#xA7B0;", "&#xA7B1;", "&#xA7B2;",
    "&#xA7B3;", "&#xA7B4;", "&#xA7B5;", "&#xA7B6;", "&#xA7B7;", "&#xA7B8;",
    "&#xA7B9;", "&#xA7BA;", "&#xA7BB;", "&#xA7BC;", "&#xA7BD;", "&#xA7BE;",
    "&#xA7BF;", "&#xA7C0;", "&#xA7C1;", "&#xA7C2;", "&#xA7C3;", "&#xA7C4;",
    "&#xA7C5;", "&#xA7C6;", "&#xA7C7;", "&#xA7C8;", "&#xA7C9;", "&#xA7CA;",
    "&#xA7D0;", "&#xA7D1;", "&#xA7D3;", "&#xA7D5;", "&#xA7D6;", "&#xA7D7;",
    "&#xA7D8;", "&#xA7D9;", "&#xA7F5;", "&#xA7F6;", "&#xA7F8;", "&#xA7F9;",
    "&#xA7FA;", "&#xAB30;", "&#xAB31;", "&#xAB32;", "&#xAB33;", "&#xAB34;",
    "&#xAB35;", "&#xAB36;", "&#xAB37;", "&#xAB38;", "&#xAB39;", "&#xAB3A;",
    "&#xAB3B;", "&#xAB3C;", "&#xAB3D;", "&#xAB3E;", "&#xAB3F;", "&#xAB40;",
    "&#xAB41;", "&#xAB42;", "&#xAB43;", "&#xAB44;", "&#xAB45;", "&#xAB46;",
    "&#xAB47;", "&#xAB48;", "&#xAB49;", "&#xAB4A;", "&#xAB4B;", "&#xAB4C;",
    "&#xAB4D;", "&#xAB4E;", "&#xAB4F;", "&#xAB50;", "&#xAB51;", "&#xAB52;",
    "&#xAB53;", "&#xAB54;", "&#xAB55;", "&#xAB56;", "&#xAB57;", "&#xAB58;",
    "&#xAB59;", "&#xAB5A;", "&#xAB5C;", "&#xAB5D;", "&#xAB5E;", "&#xAB5F;",
    "&#xAB60;", "&#xAB61;", "&#xAB62;", "&#xAB63;", "&#xAB64;", "&#xAB65;",
    "&#xAB66;", "&#xAB67;", "&#xAB68;", "&#xAB70;", "&#xAB71;", "&#xAB72;",
    "&#xAB73;", "&#xAB74;", "&#xAB75;", "&#xAB76;", "&#xAB77;", "&#xAB78;",
    "&#xAB79;", "&#xAB7A;", "&#xAB7B;", "&#xAB7C;", "&#xAB7D;", "&#xAB7E;",
    "&#xAB7F;", "&#xAB80;", "&#xAB81;", "&#xAB82;", "&#xAB83;", "&#xAB84;",
    "&#xAB85;", "&#xAB86;", "&#xAB87;", "&#xAB88;", "&#xAB89;", "&#xAB8A;",
    "&#xAB8B;", "&#xAB8C;", "&#xAB8D;", "&#xAB8E;", "&#xAB8F;", "&#xAB90;",
    "&#xAB91;", "&#xAB92;", "&#xAB93;", "&#xAB94;", "&#xAB95;", "&#xAB96;",
    "&#xAB97;", "&#xAB98;", "&#xAB99;", "&#xAB9A;", "&#xAB9B;", "&#xAB9C;",
    "&#xAB9D;", "&#xAB9E;", "&#xAB9F;", "&#xABA0;", "&#xABA1;", "&#xABA2;",
    "&#xABA3;", "&#xABA4;", "&#xABA5;", "&#xABA6;", "&#xABA7;", "&#xABA8;",
    "&#xABA9;", "&#xABAA;", "&#xABAB;", "&#xABAC;", "&#xABAD;", "&#xABAE;",
    "&#xABAF;", "&#xABB0;", "&#xABB1;", "&#xABB2;", "&#xABB3;", "&#xABB4;",
    "&#xABB5;", "&#xABB6;", "&#xABB7;", "&#xABB8;", "&#xABB9;", "&#xABBA;",
    "&#xABBB;", "&#xABBC;", "&#xABBD;", "&#xABBE;", "&#xABBF;", "&#xFB00;",
    "&#xFB01;", "&#xFB02;", "&#xFB03;", "&#xFB04;", "&#xFB05;", "&#xFB06;",
    "&#xFB13;", "&#xFB14;", "&#xFB15;", "&#xFB16;", "&#xFB17;", "&#xFF21;",
    "&#xFF22;", "&#xFF23;", "&#xFF24;", "&#xFF25;", "&#xFF26;", "&#xFF27;",
    "&#xFF28;", "&#xFF29;", "&#xFF2A;", "&#xFF2B;", "&#xFF2C;", "&#xFF2D;",
    "&#xFF2E;", "&#xFF2F;", "&#xFF30;", "&#xFF31;", "&#xFF32;", "&#xFF33;",
    "&#xFF34;", "&#xFF35;", "&#xFF36;", "&#xFF37;", "&#xFF38;", "&#xFF39;",
    "&#xFF3A;", "&#xFF41;", "&#xFF42;", "&#xFF43;", "&#xFF44;", "&#xFF45;",
    "&#xFF46;", "&#xFF47;", "&#xFF48;", "&#xFF49;", "&#xFF4A;", "&#xFF4B;",
    "&#xFF4C;", "&#xFF4D;", "&#xFF4E;", "&#xFF4F;", "&#xFF50;", "&#xFF51;",
    "&#xFF52;", "&#xFF53;", "&#xFF54;", "&#xFF55;", "&#xFF56;", "&#xFF57;",
    "&#xFF58;", "&#xFF59;", "&#xFF5A;", "&#x10400;", "&#x10401;", "&#x10402;",
    "&#x10403;", "&#x10404;", "&#x10405;", "&#x10406;", "&#x10407;",
    "&#x10408;", "&#x10409;", "&#x1040A;", "&#x1040B;", "&#x1040C;",
    "&#x1040D;", "&#x1040E;", "&#x1040F;", "&#x10410;", "&#x10411;",
    "&#x10412;", "&#x10413;", "&#x10414;", "&#x10415;", "&#x10416;",
    "&#x10417;", "&#x10418;", "&#x10419;", "&#x1041A;", "&#x1041B;",
    "&#x1041C;", "&#x1041D;", "&#x1041E;", "&#x1041F;", "&#x10420;",
    "&#x10421;", "&#x10422;", "&#x10423;", "&#x10424;", "&#x10425;",
    "&#x10426;", "&#x10427;", "&#x10428;", "&#x10429;", "&#x1042A;",
    "&#x1042B;", "&#x1042C;", "&#x1042D;", "&#x1042E;", "&#x1042F;",
    "&#x10430;", "&#x10431;", "&#x10432;", "&#x10433;", "&#x10434;",
    "&#x10435;", "&#x10436;", "&#x10437;", "&#x10438;", "&#x10439;",
    "&#x1043A;", "&#x1043B;", "&#x1043C;", "&#x1043D;", "&#x1043E;",
    "&#x1043F;", "&#x10440;", "&#x10441;", "&#x10442;", "&#x10443;",
    "&#x10444;", "&#x10445;", "&#x10446;", "&#x10447;", "&#x10448;",
    "&#x10449;", "&#x1044A;", "&#x1044B;", "&#x1044C;", "&#x1044D;",
    "&#x1044E;", "&#x1044F;", "&#x104B0;", "&#x104B1;", "&#x104B2;",
    "&#x104B3;", "&#x104B4;", "&#x104B5;", "&#x104B6;", "&#x104B7;",
    "&#x104B8;", "&#x104B9;", "&#x104BA;", "&#x104BB;", "&#x104BC;",
    "&#x104BD;", "&#x104BE;", "&#x104BF;", "&#x104C0;", "&#x104C1;",
    "&#x104C2;", "&#x104C3;", "&#x104C4;", "&#x104C5;", "&#x104C6;",
    "&#x104C7;", "&#x104C8;", "&#x104C9;", "&#x104CA;", "&#x104CB;",
    "&#x104CC;", "&#x104CD;", "&#x104CE;", "&#x104CF;", "&#x104D0;",
    "&#x104D1;", "&#x104D2;", "&#x104D3;", "&#x104D8;", "&#x104D9;",
    "&#x104DA;", "&#x104DB;", "&#x104DC;", "&#x104DD;", "&#x104DE;",
    "&#x104DF;", "&#x104E0;", "&#x104E1;", "&#x104E2;", "&#x104E3;",
    "&#x104E4;", "&#x104E5;", "&#x104E6;", "&#x104E7;", "&#x104E8;",
    "&#x104E9;", "&#x104EA;", "&#x104EB;", "&#x104EC;", "&#x104ED;",
    "&#x104EE;", "&#x104EF;", "&#x104F0;", "&#x104F1;", "&#x104F2;",
    "&#x104F3;", "&#x104F4;", "&#x104F5;", "&#x104F6;", "&#x104F7;",
    "&#x104F8;", "&#x104F9;", "&#x104FA;", "&#x104FB;", "&#x10570;",
    "&#x10571;", "&#x10572;", "&#x10573;", "&#x10574;", "&#x10575;",
    "&#x10576;", "&#x10577;", "&#x10578;", "&#x10579;", "&#x1057A;",
    "&#x1057C;", "&#x1057D;", "&#x1057E;", "&#x1057F;", "&#x10580;",
    "&#x10581;", "&#x10582;", "&#x10583;", "&#x10584;", "&#x10585;",
    "&#x10586;", "&#x10587;", "&#x10588;", "&#x10589;", "&#x1058A;",
    "&#x1058C;", "&#x1058D;", "&#x1058E;", "&#x1058F;", "&#x10590;",
    "&#x10591;", "&#x10592;", "&#x10594;", "&#x10595;", "&#x10597;",
    "&#x10598;", "&#x10599;", "&#x1059A;", "&#x1059B;", "&#x1059C;",
    "&#x1059D;", "&#x1059E;", "&#x1059F;", "&#x105A0;", "&#x105A1;",
    "&#x105A3;", "&#x105A4;", "&#x105A5;", "&#x105A6;", "&#x105A7;",
    "&#x105A8;", "&#x105A9;", "&#x105AA;", "&#x105AB;", "&#x105AC;",
    "&#x105AD;", "&#x105AE;", "&#x105AF;", "&#x105B0;", "&#x105B1;",
    "&#x105B3;", "&#x105B4;", "&#x105B5;", "&#x105B6;", "&#x105B7;",
    "&#x105B8;", "&#x105B9;", "&#x105BB;", "&#x105BC;", "&#x10780;",
    "&#x10783;", "&#x10784;", "&#x10785;", "&#x10787;", "&#x10788;",
    "&#x10789;", "&#x1078A;", "&#x1078B;", "&#x1078C;", "&#x1078D;",
    "&#x1078E;", "&#x1078F;", "&#x10790;", "&#x10791;", "&#x10792;",
    "&#x10793;", "&#x10794;", "&#x10795;", "&#x10796;", "&#x10797;",
    "&#x10798;", "&#x10799;", "&#x1079A;", "&#x1079B;", "&#x1079C;",
    "&#x1079D;", "&#x1079E;", "&#x1079F;", "&#x107A0;", "&#x107A1;",
    "&#x107A2;", "&#x107A3;", "&#x107A4;", "&#x107A5;", "&#x107A6;",
    "&#x107A7;", "&#x107A8;", "&#x107A9;", "&#x107AA;", "&#x107AB;",
    "&#x107AC;", "&#x107AD;", "&#x107AE;", "&#x107AF;", "&#x107B0;",
    "&#x107B2;", "&#x107B3;", "&#x107B4;", "&#x107B5;", "&#x107B6;",
    "&#x107B7;", "&#x107B8;", "&#x107B9;", "&#x107BA;", "&#x10C80;",
    "&#x10C81;", "&#x10C82;", "&#x10C83;", "&#x10C84;", "&#x10C85;",
    "&#x10C86;", "&#x10C87;", "&#x10C88;", "&#x10C89;", "&#x10C8A;",
    "&#x10C8B;", "&#x10C8C;", "&#x10C8D;", "&#x10C8E;", "&#x10C8F;",
    "&#x10C90;", "&#x10C91;", "&#x10C92;", "&#x10C93;", "&#x10C94;",
    "&#x10C95;", "&#x10C96;", "&#x10C97;", "&#x10C98;", "&#x10C99;",
    "&#x10C9A;", "&#x10C9B;", "&#x10C9C;", "&#x10C9D;", "&#x10C9E;",
    "&#x10C9F;", "&#x10CA0;", "&#x10CA1;", "&#x10CA2;", "&#x10CA3;",
    "&#x10CA4;", "&#x10CA5;", "&#x10CA6;", "&#x10CA7;", "&#x10CA8;",
    "&#x10CA9;", "&#x10CAA;", "&#x10CAB;", "&#x10CAC;", "&#x10CAD;",
    "&#x10CAE;", "&#x10CAF;", "&#x10CB0;", "&#x10CB1;", "&#x10CB2;",
    "&#x10CC0;", "&#x10CC1;", "&#x10CC2;", "&#x10CC3;", "&#x10CC4;",
    "&#x10CC5;", "&#x10CC6;", "&#x10CC7;", "&#x10CC8;", "&#x10CC9;",
    "&#x10CCA;", "&#x10CCB;", "&#x10CCC;", "&#x10CCD;", "&#x10CCE;",
    "&#x10CCF;", "&#x10CD0;", "&#x10CD1;", "&#x10CD2;", "&#x10CD3;",
    "&#x10CD4;", "&#x10CD5;", "&#x10CD6;", "&#x10CD7;", "&#x10CD8;",
    "&#x10CD9;", "&#x10CDA;", "&#x10CDB;", "&#x10CDC;", "&#x10CDD;",
    "&#x10CDE;", "&#x10CDF;", "&#x10CE0;", "&#x10CE1;", "&#x10CE2;",
    "&#x10CE3;", "&#x10CE4;", "&#x10CE5;", "&#x10CE6;", "&#x10CE7;",
    "&#x10CE8;", "&#x10CE9;", "&#x10CEA;", "&#x10CEB;", "&#x10CEC;",
    "&#x10CED;", "&#x10CEE;", "&#x10CEF;", "&#x10CF0;", "&#x10CF1;",
    "&#x10CF2;", "&#x118A0;", "&#x118A1;", "&#x118A2;", "&#x118A3;",
    "&#x118A4;", "&#x118A5;", "&#x118A6;", "&#x118A7;", "&#x118A8;",
    "&#x118A9;", "&#x118AA;", "&#x118AB;", "&#x118AC;", "&#x118AD;",
    "&#x118AE;", "&#x118AF;", "&#x118B0;", "&#x118B1;", "&#x118B2;",
    "&#x118B3;", "&#x118B4;", "&#x118B5;", "&#x118B6;", "&#x118B7;",
    "&#x118B8;", "&#x118B9;", "&#x118BA;", "&#x118BB;", "&#x118BC;",
    "&#x118BD;", "&#x118BE;", "&#x118BF;", "&#x118C0;", "&#x118C1;",
    "&#x118C2;", "&#x118C3;", "&#x118C4;", "&#x118C5;", "&#x118C6;",
    "&#x118C7;", "&#x118C8;", "&#x118C9;", "&#x118CA;", "&#x118CB;",
    "&#x118CC;", "&#x118CD;", "&#x118CE;", "&#x118CF;", "&#x118D0;",
    "&#x118D1;", "&#x118D2;", "&#x118D3;", "&#x118D4;", "&#x118D5;",
    "&#x118D6;", "&#x118D7;", "&#x118D8;", "&#x118D9;", "&#x118DA;",
    "&#x118DB;", "&#x118DC;", "&#x118DD;", "&#x118DE;", "&#x118DF;",
    "&#x16E40;", "&#x16E41;", "&#x16E42;", "&#x16E43;", "&#x16E44;",
    "&#x16E45;", "&#x16E46;", "&#x16E47;", "&#x16E48;", "&#x16E49;",
    "&#x16E4A;", "&#x16E4B;", "&#x16E4C;", "&#x16E4D;", "&#x16E4E;",
    "&#x16E4F;", "&#x16E50;", "&#x16E51;", "&#x16E52;", "&#x16E53;",
    "&#x16E54;", "&#x16E55;", "&#x16E56;", "&#x16E57;", "&#x16E58;",
    "&#x16E59;", "&#x16E5A;", "&#x16E5B;", "&#x16E5C;", "&#x16E5D;",
    "&#x16E5E;", "&#x16E5F;", "&#x16E60;", "&#x16E61;", "&#x16E62;",
    "&#x16E63;", "&#x16E64;", "&#x16E65;", "&#x16E66;", "&#x16E67;",
    "&#x16E68;", "&#x16E69;", "&#x16E6A;", "&#x16E6B;", "&#x16E6C;",
    "&#x16E6D;", "&#x16E6E;", "&#x16E6F;", "&#x16E70;", "&#x16E71;",
    "&#x16E72;", "&#x16E73;", "&#x16E74;", "&#x16E75;", "&#x16E76;",
    "&#x16E77;", "&#x16E78;", "&#x16E79;", "&#x16E7A;", "&#x16E7B;",
    "&#x16E7C;", "&#x16E7D;", "&#x16E7E;", "&#x16E7F;", "&#x1D400;",
    "&#x1D401;", "&#x1D402;", "&#x1D403;", "&#x1D404;", "&#x1D405;",
    "&#x1D406;", "&#x1D407;", "&#x1D408;", "&#x1D409;", "&#x1D40A;",
    "&#x1D40B;", "&#x1D40C;", "&#x1D40D;", "&#x1D40E;", "&#x1D40F;",
    "&#x1D410;", "&#x1D411;", "&#x1D412;", "&#x1D413;", "&#x1D414;",
    "&#x1D415;", "&#x1D416;", "&#x1D417;", "&#x1D418;", "&#x1D419;",
    "&#x1D41A;", "&#x1D41B;", "&#x1D41C;", "&#x1D41D;", "&#x1D41E;",
    "&#x1D41F;", "&#x1D420;", "&#x1D421;", "&#x1D422;", "&#x1D423;",
    "&#x1D424;", "&#x1D425;", "&#x1D426;", "&#x1D427;", "&#x1D428;",
    "&#x1D429;", "&#x1D42A;", "&#x1D42B;", "&#x1D42C;", "&#x1D42D;",
    "&#x1D42E;", "&#x1D42F;", "&#x1D430;", "&#x1D431;", "&#x1D432;",
    "&#x1D433;", "&#x1D434;", "&#x1D435;", "&#x1D436;", "&#x1D437;",
    "&#x1D438;", "&#x1D439;", "&#x1D43A;", "&#x1D43B;", "&#x1D43C;",
    "&#x1D43D;", "&#x1D43E;", "&#x1D43F;", "&#x1D440;", "&#x1D441;",
    "&#x1D442;", "&#x1D443;", "&#x1D444;", "&#x1D445;", "&#x1D446;",
    "&#x1D447;", "&#x1D448;", "&#x1D449;", "&#x1D44A;", "&#x1D44B;",
    "&#x1D44C;", "&#x1D44D;", "&#x1D44E;", "&#x1D44F;", "&#x1D450;",
    "&#x1D451;", "&#x1D452;", "&#x1D453;", "&#x1D454;", "&#x1D456;",
    "&#x1D457;", "&#x1D458;", "&#x1D459;", "&#x1D45A;", "&#x1D45B;",
    "&#x1D45C;", "&#x1D45D;", "&#x1D45E;", "&#x1D45F;", "&#x1D460;",
    "&#x1D461;", "&#x1D462;", "&#x1D463;", "&#x1D464;", "&#x1D465;",
    "&#x1D466;", "&#x1D467;", "&#x1D468;", "&#x1D469;", "&#x1D46A;",
    "&#x1D46B;", "&#x1D46C;", "&#x1D46D;", "&#x1D46E;", "&#x1D46F;",
    "&#x1D470;", "&#x1D471;", "&#x1D472;", "&#x1D473;", "&#x1D474;",
    "&#x1D475;", "&#x1D476;", "&#x1D477;", "&#x1D478;", "&#x1D479;",
    "&#x1D47A;", "&#x1D47B;", "&#x1D47C;", "&#x1D47D;", "&#x1D47E;",
    "&#x1D47F;", "&#x1D480;", "&#x1D481;", "&#x1D482;", "&#x1D483;",
    "&#x1D484;", "&#x1D485;", "&#x1D486;", "&#x1D487;", "&#x1D488;",
    "&#x1D489;", "&#x1D48A;", "&#x1D48B;", "&#x1D48C;", "&#x1D48D;",
    "&#x1D48E;", "&#x1D48F;", "&#x1D490;", "&#x1D491;", "&#x1D492;",
    "&#x1D493;", "&#x1D494;", "&#x1D495;", "&#x1D496;", "&#x1D497;",
    "&#x1D498;", "&#x1D499;", "&#x1D49A;", "&#x1D49B;", "&#x1D49C;",
    "&#x1D49E;", "&#x1D49F;", "&#x1D4A2;", "&#x1D4A5;", "&#x1D4A6;",
    "&#x1D4A9;", "&#x1D4AA;", "&#x1D4AB;", "&#x1D4AC;", "&#x1D4AE;",
    "&#x1D4AF;", "&#x1D4B0;", "&#x1D4B1;", "&#x1D4B2;", "&#x1D4B3;",
    "&#x1D4B4;", "&#x1D4B5;", "&#x1D4B6;", "&#x1D4B7;", "&#x1D4B8;",
    "&#x1D4B9;", "&#x1D4BB;", "&#x1D4BD;", "&#x1D4BE;", "&#x1D4BF;",
    "&#x1D4C0;", "&#x1D4C1;", "&#x1D4C2;", "&#x1D4C3;", "&#x1D4C5;",
    "&#x1D4C6;", "&#x1D4C7;", "&#x1D4C8;", "&#x1D4C9;", "&#x1D4CA;",
    "&#x1D4CB;", "&#x1D4CC;", "&#x1D4CD;", "&#x1D4CE;", "&#x1D4CF;",
    "&#x1D4D0;", "&#x1D4D1;", "&#x1D4D2;", "&#x1D4D3;", "&#x1D4D4;",
    "&#x1D4D5;", "&#x1D4D6;", "&#x1D4D7;", "&#x1D4D8;", "&#x1D4D9;",
    "&#x1D4DA;", "&#x1D4DB;", "&#x1D4DC;", "&#x1D4DD;", "&#x1D4DE;",
    "&#x1D4DF;", "&#x1D4E0;", "&#x1D4E1;", "&#x1D4E2;", "&#x1D4E3;",
    "&#x1D4E4;", "&#x1D4E5;", "&#x1D4E6;", "&#x1D4E7;", "&#x1D4E8;",
    "&#x1D4E9;", "&#x1D4EA;", "&#x1D4EB;", "&#x1D4EC;", "&#x1D4ED;",
    "&#x1D4EE;", "&#x1D4EF;", "&#x1D4F0;", "&#x1D4F1;", "&#x1D4F2;",
    "&#x1D4F3;", "&#x1D4F4;", "&#x1D4F5;", "&#x1D4F6;", "&#x1D4F7;",
    "&#x1D4F8;", "&#x1D4F9;", "&#x1D4FA;", "&#x1D4FB;", "&#x1D4FC;",
    "&#x1D4FD;", "&#x1D4FE;", "&#x1D4FF;", "&#x1D500;", "&#x1D501;",
    "&#x1D502;", "&#x1D503;", "&#x1D504;", "&#x1D505;", "&#x1D507;",
    "&#x1D508;", "&#x1D509;", "&#x1D50A;", "&#x1D50D;", "&#x1D50E;",
    "&#x1D50F;", "&#x1D510;", "&#x1D511;", "&#x1D512;", "&#x1D513;",
    "&#x1D514;", "&#x1D516;", "&#x1D517;", "&#x1D518;", "&#x1D519;",
    "&#x1D51A;", "&#x1D51B;", "&#x1D51C;", "&#x1D51E;", "&#x1D51F;",
    "&#x1D520;", "&#x1D521;", "&#x1D522;", "&#x1D523;", "&#x1D524;",
    "&#x1D525;", "&#x1D526;", "&#x1D527;", "&#x1D528;", "&#x1D529;",
    "&#x1D52A;", "&#x1D52B;", "&#x1D52C;", "&#x1D52D;", "&#x1D52E;",
    "&#x1D52F;", "&#x1D530;", "&#x1D531;", "&#x1D532;", "&#x1D533;",
    "&#x1D534;", "&#x1D535;", "&#x1D536;", "&#x1D537;", "&#x1D538;",
    "&#x1D539;", "&#x1D53B;", "&#x1D53C;", "&#x1D53D;", "&#x1D53E;",
    "&#x1D540;", "&#x1D541;", "&#x1D542;", "&#x1D543;", "&#x1D544;",
    "&#x1D546;", "&#x1D54A;", "&#x1D54B;", "&#x1D54C;", "&#x1D54D;",
    "&#x1D54E;", "&#x1D54F;", "&#x1D550;", "&#x1D552;", "&#x1D553;",
    "&#x1D554;", "&#x1D555;", "&#x1D556;", "&#x1D557;", "&#x1D558;",
    "&#x1D559;", "&#x1D55A;", "&#x1D55B;", "&#x1D55C;", "&#x1D55D;",
    "&#x1D55E;", "&#x1D55F;", "&#x1D560;", "&#x1D561;", "&#x1D562;",
    "&#x1D563;", "&#x1D564;", "&#x1D565;", "&#x1D566;", "&#x1D567;",
    "&#x1D568;", "&#x1D569;", "&#x1D56A;", "&#x1D56B;", "&#x1D56C;",
    "&#x1D56D;", "&#x1D56E;", "&#x1D56F;", "&#x1D570;", "&#x1D571;",
    "&#x1D572;", "&#x1D573;", "&#x1D574;", "&#x1D575;", "&#x1D576;",
    "&#x1D577;", "&#x1D578;", "&#x1D579;", "&#x1D57A;", "&#x1D57B;",
    "&#x1D57C;", "&#x1D57D;", "&#x1D57E;", "&#x1D57F;", "&#x1D580;",
    "&#x1D581;", "&#x1D582;", "&#x1D583;", "&#x1D584;", "&#x1D585;",
    "&#x1D586;", "&#x1D587;", "&#x1D588;", "&#x1D589;", "&#x1D58A;",
    "&#x1D58B;", "&#x1D58C;", "&#x1D58D;", "&#x1D58E;", "&#x1D58F;",
    "&#x1D590;", "&#x1D591;", "&#x1D592;", "&#x1D593;", "&#x1D594;",
    "&#x1D595;", "&#x1D596;", "&#x1D597;", "&#x1D598;", "&#x1D599;",
    "&#x1D59A;", "&#x1D59B;", "&#x1D59C;", "&#x1D59D;", "&#x1D59E;",
    "&#x1D59F;", "&#x1D5A0;", "&#x1D5A1;", "&#x1D5A2;", "&#x1D5A3;",
    "&#x1D5A4;", "&#x1D5A5;", "&#x1D5A6;", "&#x1D5A7;", "&#x1D5A8;",
    "&#x1D5A9;", "&#x1D5AA;", "&#x1D5AB;", "&#x1D5AC;", "&#x1D5AD;",
    "&#x1D5AE;", "&#x1D5AF;", "&#x1D5B0;", "&#x1D5B1;", "&#x1D5B2;",
    "&#x1D5B3;", "&#x1D5B4;", "&#x1D5B5;", "&#x1D5B6;", "&#x1D5B7;",
    "&#x1D5B8;", "&#x1D5B9;", "&#x1D5BA;", "&#x1D5BB;", "&#x1D5BC;",
    "&#x1D5BD;", "&#x1D5BE;", "&#x1D5BF;", "&#x1D5C0;", "&#x1D5C1;",
    "&#x1D5C2;", "&#x1D5C3;", "&#x1D5C4;", "&#x1D5C5;", "&#x1D5C6;",
    "&#x1D5C7;", "&#x1D5C8;", "&#x1D5C9;", "&#x1D5CA;", "&#x1D5CB;",
    "&#x1D5CC;", "&#x1D5CD;", "&#x1D5CE;", "&#x1D5CF;", "&#x1D5D0;",
    "&#x1D5D1;", "&#x1D5D2;", "&#x1D5D3;", "&#x1D5D4;", "&#x1D5D5;",
    "&#x1D5D6;", "&#x1D5D7;", "&#x1D5D8;", "&#x1D5D9;", "&#x1D5DA;",
    "&#x1D5DB;", "&#x1D5DC;", "&#x1D5DD;", "&#x1D5DE;", "&#x1D5DF;",
    "&#x1D5E0;", "&#x1D5E1;", "&#x1D5E2;", "&#x1D5E3;", "&#x1D5E4;",
    "&#x1D5E5;", "&#x1D5E6;", "&#x1D5E7;", "&#x1D5E8;", "&#x1D5E9;",
    "&#x1D5EA;", "&#x1D5EB;", "&#x1D5EC;", "&#x1D5ED;", "&#x1D5EE;",
    "&#x1D5EF;", "&#x1D5F0;", "&#x1D5F1;", "&#x1D5F2;", "&#x1D5F3;",
    "&#x1D5F4;", "&#x1D5F5;", "&#x1D5F6;", "&#x1D5F7;", "&#x1D5F8;",
    "&#x1D5F9;", "&#x1D5FA;", "&#x1D5FB;", "&#x1D5FC;", "&#x1D5FD;",
    "&#x1D5FE;", "&#x1D5FF;", "&#x1D600;", "&#x1D601;", "&#x1D602;",
    "&#x1D603;", "&#x1D604;", "&#x1D605;", "&#x1D606;", "&#x1D607;",
    "&#x1D608;", "&#x1D609;", "&#x1D60A;", "&#x1D60B;", "&#x1D60C;",
    "&#x1D60D;", "&#x1D60E;", "&#x1D60F;", "&#x1D610;", "&#x1D611;",
    "&#x1D612;", "&#x1D613;", "&#x1D614;", "&#x1D615;", "&#x1D616;",
    "&#x1D617;", "&#x1D618;", "&#x1D619;", "&#x1D61A;", "&#x1D61B;",
    "&#x1D61C;", "&#x1D61D;", "&#x1D61E;", "&#x1D61F;", "&#x1D620;",
    "&#x1D621;", "&#x1D622;", "&#x1D623;", "&#x1D624;", "&#x1D625;",
    "&#x1D626;", "&#x1D627;", "&#x1D628;", "&#x1D629;", "&#x1D62A;",
    "&#x1D62B;", "&#x1D62C;", "&#x1D62D;", "&#x1D62E;", "&#x1D62F;",
    "&#x1D630;", "&#x1D631;", "&#x1D632;", "&#x1D633;", "&#x1D634;",
    "&#x1D635;", "&#x1D636;", "&#x1D637;", "&#x1D638;", "&#x1D639;",
    "&#x1D63A;", "&#x1D63B;", "&#x1D63C;", "&#x1D63D;", "&#x1D63E;",
    "&#x1D63F;", "&#x1D640;", "&#x1D641;", "&#x1D642;", "&#x1D643;",
    "&#x1D644;", "&#x1D645;", "&#x1D646;", "&#x1D647;", "&#x1D648;",
    "&#x1D649;", "&#x1D64A;", "&#x1D64B;", "&#x1D64C;", "&#x1D64D;",
    "&#x1D64E;", "&#x1D64F;", "&#x1D650;", "&#x1D651;", "&#x1D652;",
    "&#x1D653;", "&#x1D654;", "&#x1D655;", "&#x1D656;", "&#x1D657;",
    "&#x1D658;", "&#x1D659;", "&#x1D65A;", "&#x1D65B;", "&#x1D65C;",
    "&#x1D65D;", "&#x1D65E;", "&#x1D65F;", "&#x1D660;", "&#x1D661;",
    "&#x1D662;", "&#x1D663;", "&#x1D664;", "&#x1D665;", "&#x1D666;",
    "&#x1D667;", "&#x1D668;", "&#x1D669;", "&#x1D66A;", "&#x1D66B;",
    "&#x1D66C;", "&#x1D66D;", "&#x1D66E;", "&#x1D66F;", "&#x1D670;",
    "&#x1D671;", "&#x1D672;", "&#x1D673;", "&#x1D674;", "&#x1D675;",
    "&#x1D676;", "&#x1D677;", "&#x1D678;", "&#x1D679;", "&#x1D67A;",
    "&#x1D67B;", "&#x1D67C;", "&#x1D67D;", "&#x1D67E;", "&#x1D67F;",
    "&#x1D680;", "&#x1D681;", "&#x1D682;", "&#x1D683;", "&#x1D684;",
    "&#x1D685;", "&#x1D686;", "&#x1D687;", "&#x1D688;", "&#x1D689;",
    "&#x1D68A;", "&#x1D68B;", "&#x1D68C;", "&#x1D68D;", "&#x1D68E;",
    "&#x1D68F;", "&#x1D690;", "&#x1D691;", "&#x1D692;", "&#x1D693;",
    "&#x1D694;", "&#x1D695;", "&#x1D696;", "&#x1D697;", "&#x1D698;",
    "&#x1D699;", "&#x1D69A;", "&#x1D69B;", "&#x1D69C;", "&#x1D69D;",
    "&#x1D69E;", "&#x1D69F;", "&#x1D6A0;", "&#x1D6A1;", "&#x1D6A2;",
    "&#x1D6A3;", "&#x1D6A4;", "&#x1D6A5;", "&#x1D6A8;", "&#x1D6A9;",
    "&#x1D6AA;", "&#x1D6AB;", "&#x1D6AC;", "&#x1D6AD;", "&#x1D6AE;",
    "&#x1D6AF;", "&#x1D6B0;", "&#x1D6B1;", "&#x1D6B2;", "&#x1D6B3;",
    "&#x1D6B4;", "&#x1D6B5;", "&#x1D6B6;", "&#x1D6B7;", "&#x1D6B8;",
    "&#x1D6B9;", "&#x1D6BA;", "&#x1D6BB;", "&#x1D6BC;", "&#x1D6BD;",
    "&#x1D6BE;", "&#x1D6BF;", "&#x1D6C0;", "&#x1D6C2;", "&#x1D6C3;",
    "&#x1D6C4;", "&#x1D6C5;", "&#x1D6C6;", "&#x1D6C7;", "&#x1D6C8;",
    "&#x1D6C9;", "&#x1D6CA;", "&#x1D6CB;", "&#x1D6CC;", "&#x1D6CD;",
    "&#x1D6CE;", "&#x1D6CF;", "&#x1D6D0;", "&#x1D6D1;", "&#x1D6D2;",
    "&#x1D6D3;", "&#x1D6D4;", "&#x1D6D5;", "&#x1D6D6;", "&#x1D6D7;",
    "&#x1D6D8;", "&#x1D6D9;", "&#x1D6DA;", "&#x1D6DC;", "&#x1D6DD;",
    "&#x1D6DE;", "&#x1D6DF;", "&#x1D6E0;", "&#x1D6E1;", "&#x1D6E2;",
    "&#x1D6E3;", "&#x1D6E4;", "&#x1D6E5;", "&#x1D6E6;", "&#x1D6E7;",
    "&#x1D6E8;", "&#x1D6E9;", "&#x1D6EA;", "&#x1D6EB;", "&#x1D6EC;",
    "&#x1D6ED;", "&#x1D6EE;", "&#x1D6EF;", "&#x1D6F0;", "&#x1D6F1;",
    "&#x1D6F2;", "&#x1D6F3;", "&#x1D6F4;", "&#x1D6F5;", "&#x1D6F6;",
    "&#x1D6F7;", "&#x1D6F8;", "&#x1D6F9;", "&#x1D6FA;", "&#x1D6FC;",
    "&#x1D6FD;", "&#x1D6FE;", "&#x1D6FF;", "&#x1D700;", "&#x1D701;",
    "&#x1D702;", "&#x1D703;", "&#x1D704;", "&#x1D705;", "&#x1D706;",
    "&#x1D707;", "&#x1D708;", "&#x1D709;", "&#x1D70A;", "&#x1D70B;",
    "&#x1D70C;", "&#x1D70D;", "&#x1D70E;", "&#x1D70F;", "&#x1D710;",
    "&#x1D711;", "&#x1D712;", "&#x1D713;", "&#x1D714;", "&#x1D716;",
    "&#x1D717;", "&#x1D718;", "&#x1D719;", "&#x1D71A;", "&#x1D71B;",
    "&#x1D71C;", "&#x1D71D;", "&#x1D71E;", "&#x1D71F;", "&#x1D720;",
    "&#x1D721;", "&#x1D722;", "&#x1D723;", "&#x1D724;", "&#x1D725;",
    "&#x1D726;", "&#x1D727;", "&#x1D728;", "&#x1D729;", "&#x1D72A;",
    "&#x1D72B;", "&#x1D72C;", "&#x1D72D;", "&#x1D72E;", "&#x1D72F;",
    "&#x1D730;", "&#x1D731;", "&#x1D732;", "&#x1D733;", "&#x1D734;",
    "&#x1D736;", "&#x1D737;", "&#x1D738;", "&#x1D739;", "&#x1D73A;",
    "&#x1D73B;", "&#x1D73C;", "&#x1D73D;", "&#x1D73E;", "&#x1D73F;",
    "&#x1D740;", "&#x1D741;", "&#x1D742;", "&#x1D743;", "&#x1D744;",
    "&#x1D745;", "&#x1D746;", "&#x1D747;", "&#x1D748;", "&#x1D749;",
    "&#x1D74A;", "&#x1D74B;", "&#x1D74C;", "&#x1D74D;", "&#x1D74E;",
    "&#x1D750;", "&#x1D751;", "&#x1D752;", "&#x1D753;", "&#x1D754;",
    "&#x1D755;", "&#x1D756;", "&#x1D757;", "&#x1D758;", "&#x1D759;",
    "&#x1D75A;", "&#x1D75B;", "&#x1D75C;", "&#x1D75D;", "&#x1D75E;",
    "&#x1D75F;", "&#x1D760;", "&#x1D761;", "&#x1D762;", "&#x1D763;",
    "&#x1D764;", "&#x1D765;", "&#x1D766;", "&#x1D767;", "&#x1D768;",
    "&#x1D769;", "&#x1D76A;", "&#x1D76B;", "&#x1D76C;", "&#x1D76D;",
    "&#x1D76E;", "&#x1D770;", "&#x1D771;", "&#x1D772;", "&#x1D773;",
    "&#x1D774;", "&#x1D775;", "&#x1D776;", "&#x1D777;", "&#x1D778;",
    "&#x1D779;", "&#x1D77A;", "&#x1D77B;", "&#x1D77C;", "&#x1D77D;",
    "&#x1D77E;", "&#x1D77F;", "&#x1D780;", "&#x1D781;", "&#x1D782;",
    "&#x1D783;", "&#x1D784;", "&#x1D785;", "&#x1D786;", "&#x1D787;",
    "&#x1D788;", "&#x1D78A;", "&#x1D78B;", "&#x1D78C;", "&#x1D78D;",
    "&#x1D78E;", "&#x1D78F;", "&#x1D790;", "&#x1D791;", "&#x1D792;",
    "&#x1D793;", "&#x1D794;", "&#x1D795;", "&#x1D796;", "&#x1D797;",
    "&#x1D798;", "&#x1D799;", "&#x1D79A;", "&#x1D79B;", "&#x1D79C;",
    "&#x1D79D;", "&#x1D79E;", "&#x1D79F;", "&#x1D7A0;", "&#x1D7A1;",
    "&#x1D7A2;", "&#x1D7A3;", "&#x1D7A4;", "&#x1D7A5;", "&#x1D7A6;",
    "&#x1D7A7;", "&#x1D7A8;", "&#x1D7AA;", "&#x1D7AB;", "&#x1D7AC;",
    "&#x1D7AD;", "&#x1D7AE;", "&#x1D7AF;", "&#x1D7B0;", "&#x1D7B1;",
    "&#x1D7B2;", "&#x1D7B3;", "&#x1D7B4;", "&#x1D7B5;", "&#x1D7B6;",
    "&#x1D7B7;", "&#x1D7B8;", "&#x1D7B9;", "&#x1D7BA;", "&#x1D7BB;",
    "&#x1D7BC;", "&#x1D7BD;", "&#x1D7BE;", "&#x1D7BF;", "&#x1D7C0;",
    "&#x1D7C1;", "&#x1D7C2;", "&#x1D7C4;", "&#x1D7C5;", "&#x1D7C6;",
    "&#x1D7C7;", "&#x1D7C8;", "&#x1D7C9;", "&#x1D7CA;", "&#x1D7CB;",
    "&#x1DF00;", "&#x1DF01;", "&#x1DF02;", "&#x1DF03;", "&#x1DF04;",
    "&#x1DF05;", "&#x1DF06;", "&#x1DF07;", "&#x1DF08;", "&#x1DF09;",
    "&#x1DF0B;", "&#x1DF0C;", "&#x1DF0D;", "&#x1DF0E;", "&#x1DF0F;",
    "&#x1DF10;", "&#x1DF11;", "&#x1DF12;", "&#x1DF13;", "&#x1DF14;",
    "&#x1DF15;", "&#x1DF16;", "&#x1DF17;", "&#x1DF18;", "&#x1DF19;",
    "&#x1DF1A;", "&#x1DF1B;", "&#x1DF1C;", "&#x1DF1D;", "&#x1DF1E;",
    "&#x1E900;", "&#x1E901;", "&#x1E902;", "&#x1E903;", "&#x1E904;",
    "&#x1E905;", "&#x1E906;", "&#x1E907;", "&#x1E908;", "&#x1E909;",
    "&#x1E90A;", "&#x1E90B;", "&#x1E90C;", "&#x1E90D;", "&#x1E90E;",
    "&#x1E90F;", "&#x1E910;", "&#x1E911;", "&#x1E912;", "&#x1E913;",
    "&#x1E914;", "&#x1E915;", "&#x1E916;", "&#x1E917;", "&#x1E918;",
    "&#x1E919;", "&#x1E91A;", "&#x1E91B;", "&#x1E91C;", "&#x1E91D;",
    "&#x1E91E;", "&#x1E91F;", "&#x1E920;", "&#x1E921;", "&#x1E922;",
    "&#x1E923;", "&#x1E924;", "&#x1E925;", "&#x1E926;", "&#x1E927;",
    "&#x1E928;", "&#x1E929;", "&#x1E92A;", "&#x1E92B;", "&#x1E92C;",
    "&#x1E92D;", "&#x1E92E;", "&#x1E92F;", "&#x1E930;", "&#x1E931;",
    "&#x1E932;", "&#x1E933;", "&#x1E934;", "&#x1E935;", "&#x1E936;",
    "&#x1E937;", "&#x1E938;", "&#x1E939;", "&#x1E93A;", "&#x1E93B;",
    "&#x1E93C;", "&#x1E93D;", "&#x1E93E;", "&#x1E93F;", "&#x1E940;",
    "&#x1E941;", "&#x1E942;", "&#x1E943;", "&#x1F130;", "&#x1F131;",
    "&#x1F132;", "&#x1F133;", "&#x1F134;", "&#x1F135;", "&#x1F136;",
    "&#x1F137;", "&#x1F138;", "&#x1F139;", "&#x1F13A;", "&#x1F13B;",
    "&#x1F13C;", "&#x1F13D;", "&#x1F13E;", "&#x1F13F;", "&#x1F140;",
    "&#x1F141;", "&#x1F142;", "&#x1F143;", "&#x1F144;", "&#x1F145;",
    "&#x1F146;", "&#x1F147;", "&#x1F148;", "&#x1F149;", "&#x1F150;",
    "&#x1F151;", "&#x1F152;", "&#x1F153;", "&#x1F154;", "&#x1F155;",
    "&#x1F156;", "&#x1F157;", "&#x1F158;", "&#x1F159;", "&#x1F15A;",
    "&#x1F15B;", "&#x1F15C;", "&#x1F15D;", "&#x1F15E;", "&#x1F15F;",
    "&#x1F160;", "&#x1F161;", "&#x1F162;", "&#x1F163;", "&#x1F164;",
    "&#x1F165;", "&#x1F166;", "&#x1F167;", "&#x1F168;", "&#x1F169;",
    "&#x1F170;", "&#x1F171;", "&#x1F172;", "&#x1F173;", "&#x1F174;",
    "&#x1F175;", "&#x1F176;", "&#x1F177;", "&#x1F178;", "&#x1F179;",
    "&#x1F17A;", "&#x1F17B;", "&#x1F17C;", "&#x1F17D;", "&#x1F17E;",
    "&#x1F17F;", "&#x1F180;", "&#x1F181;", "&#x1F182;", "&#x1F183;",
    "&#x1F184;", "&#x1F185;", "&#x1F186;", "&#x1F187;", "&#x1F188;",
    "&#x1F189;"
    }

\* The case-ignorable code points, which str.lower() skips on both sides of
\* U+03A3 when it looks for a cased neighbour.
CaseIgnorable == {
    "'", ".", ":", "^", "&#x60;", "&#xA8;", "&#xAD;", "&#xAF;", "&#xB4;", "&#xB7;",
    "&#xB8;", "&#x2B0;", "&#x2B1;", "&#x2B2;", "&#x2B3;", "&#x2B4;",
    "&#x2B5;", "&#x2B6;", "&#x2B7;", "&#x2B8;", "&#x2B9;", "&#x2BA;",
    "&#x2BB;", "&#x2BC;", "&#x2BD;", "&#x2BE;", "&#x2BF;", "&#x2C0;",
    "&#x2C1;", "&#x2C2;", "&#x2C3;", "&#x2C4;", "&#x2C5;", "&#x2C6;",
    "&#x2C7;", "&#x2C8;", "&#x2C9;", "&#x2CA;", "&#x2CB;", "&#x2CC;",
    "&#x2CD;", "&#x2CE;", "&#x2CF;", "&#x2D0;", "&#x2D1;", "&#x2D2;",
    "&#x2D3;", "&#x2D4;", "&#x2D5;", "&#x2D6;", "&#x2D7;", "&#x2D8;",
    "&#x2D9;", "&#x2DA;", "&#x2DB;", "&#x2DC;", "&#x2DD;", "&#x2DE;",
    "&#x2DF;", "&#x2E0;", "&#x2E1;", "&#x2E2;", "&#x2E3;", "&#x2E4;",
    "&#x2E5;", "&#x2E6;", "&#x2E7;", "&#x2E8;", "&#x2E9;", "&#x2EA;",
    "&#x2EB;", "&#x2EC;", "&#x2ED;", "&#x2EE;", "&#x2EF;", "&#x2F0;",
    "&#x2F1;", "&#x2F2;", "&#x2F3;", "&#x2F4;", "&#x2F5;", "&#x2F6;",
    "&#x2F7;", "&#x2F8;", "&#x2F9;", "&#x2FA;", "&#x2FB;", "&#x2FC;",
    "&#x2FD;", "&#x2FE;", "&#x2FF;", "&#x300;", "&#x301;", "&#x302;",
    "&#x303;", "&#x304;", "&#x305;", "&#x306;", "&#x307;", "&#x308;",
    "&#x309;", "&#x30A;", "&#x30B;", "&#x30C;", "&#x30D;", "&#x30E;",
    "&#x30F;", "&#x310;", "&#x311;", "&#x312;", "&#x313;", "&#x314;",
    "&#x315;", "&#x316;", "&#x317;", "&#x318;", "&#x319;", "&#x31A;",
    "&#x31B;", "&#x31C;", "&#x31D;", "&#x31E;", "&#x31F;", "&#x320;",
    "&#x321;", "&#x322;", "&#x323;", "&#x324;", "&#x325;", "&#x326;",
    "&#x327;", "&#x328;", "&#x329;", "&#x32A;", "&#x32B;", "&#x32C;",
    "&#x32D;", "&#x32E;", "&#x32F;", "&#x330;", "&#x331;", "&#x332;",
    "&#x333;", "&#x334;", "&#x335;", "&#x336;", "&#x337;", "&#x338;",
    "&#x339;", "&#x33A;", "&#x33B;", "&#x33C;", "&#x33D;", "&#x33E;",
    "&#x33F;", "&#x340;", "&#x341;", "&#x342;", "&#x343;", "&#x344;",
    "&#x345;", "&#x346;", "&#x347;", "&#x348;", "&#x349;", "&#x34A;",
    "&#x34B;", "&#x34C;", "&#x34D;", "&#x34E;", "&#x34F;", "&#x350;",
    "&#x351;", "&#x352;", "&#x353;", "&#x354;", "&#x355;", "&#x356;",
    "&#x357;", "&#x358;", "&#x359;", "&#x35A;", "&#x35B;", "&#x35C;",
    "&#x35D;", "&#x35E;", "&#x35F;", "&#x360;", "&#x361;", "&#x362;",
    "&#x363;", "&#x364;", "&#x365;", "&#x366;", "&#x367;", "&#x368;",
    "&#x369;", "&#x36A;", "&#x36B;", "&#x36C;", "&#x36D;", "&#x36E;",
    "&#x36F;", "&#x374;", "&#x375;", "&#x37A;", "&#x384;", "&#x385;",
    "&#x387;", "&#x483;", "&#x484;", "&#x485;", "&#x486;", "&#x487;",
    "&#x488;", "&#x489;", "&#x559;", "&#x55F;", "&#x591;", "&#x592;",
    "&#x593;", "&#x594;", "&#x595;", "&#x596;", "&#x597;", "&#x598;",
    "&#x599;", "&#x59A;", "&#x59B;", "&#x59C;", "&#x59D;", "&#x59E;",
    "&#x59F;", "&#x5A0;", "&#x5A1;", "&#x5A2;", "&#x5A3;", "&#x5A4;",
    "&#x5A5;", "&#x5A6;", "&#x5A7;", "&#x5A8;", "&#x5A9;", "&#x5AA;",
    "&#x5AB;", "&#x5AC;", "&#x5AD;", "&#x5AE;", "&#x5AF;", "&#x5B0;",
    "&#x5B1;", "&#x5B2;", "&#x5B3;", "&#x5B4;", "&#x5B5;", "&#x5B6;",
    "&#x5B7;", "&#x5B8;", "&#x5B9;", "&#x5BA;", "&#x5BB;", "&#x5BC;",
    "&#x5BD;", "&#x5BF;", "&#x5C1;", "&#x5C2;", "&#x5C4;", "&#x5C5;",
    "&#x5C7;", "&#x5F4;", "&#x600;", "&#x601;", "&#x602;", "&#x603;",
    "&#x604;", "&#x605;", "&#x610;", "&#x611;", "&#x612;", "&#x613;",
    "&#x614;", "&#x615;", "&#x616;", "&#x617;", "&#x618;", "&#x619;",
    "&#x61A;", "&#x61C;", "&#x640;", "&#x64B;", "&#x64C;", "&#x64D;",
    "&#x64E;", "&#x64F;", "&#x650;", "&#x651;", "&#x652;", "&#x653;",
    "&#x654;", "&#x655;", "&#x656;", "&#x657;", "&#x658;", "&#x659;",
    "&#x65A;", "&#x65B;", "&#x65C;", "&#x65D;", "&#x65E;", "&#x65F;",
    "&#x670;", "&#x6D6;", "&#x6D7;", "&#x6D8;", "&#x6D9;", "&#x6DA;",
    "&#x6DB;", "&#x6DC;", "&#x6DD;", "&#x6DF;", "&#x6E0;", "&#x6E1;",
    "&#x6E2;", "&#x6E3;", "&#x6E4;", "&#x6E5;", "&#x6E6;", "&#x6E7;",
    "&#x6E8;", "&#x6EA;", "&#x6EB;", "&#x6EC;", "&#x6ED;", "&#x70F;",
    "&#x711;", "&#x730;", "&#x731;", "&#x732;", "&#x733;", "&#x734;",
    "&#x735;", "&#x736;", "&#x737;", "&#x738;", "&#x739;", "&#x73A;",
    "&#x73B;", "&#x73C;", "&#x73D;", "&#x73E;", "&#x73F;", "&#x740;",
    "&#x741;", "&#x742;", "&#x743;", "&#x744;", "&#x745;", "&#x746;",
    "&#x747;", "&#x748;", "&#x749;", "&#x74A;", "&#x7A6;", "&#x7A7;",
    "&#x7A8;", "&#x7A9;", "&#x7AA;", "&#x7AB;", "&#x7AC;", "&#x7AD;",
    "&#x7AE;", "&#x7AF;", "&#x7B0;", "&#x7EB;", "&#x7EC;", "&#x7ED;",
    "&#x7EE;", "&#x7EF;", "&#x7F0;", "&#x7F1;", "&#x7F2;", "&#x7F3;",
    "&#x7F4;", "&#x7F5;", "&#x7FA;", "&#x7FD;", "&#x816;", "&#x817;",
    "&#x818;", "&#x819;", "&#x81A;", "&#x81B;", "&#x81C;", "&#x81D;",
    "&#x81E;", "&#x81F;", "&#x820;", "&#x821;", "&#x822;", "&#x823;",
    "&#x824;", "&#x825;", "&#x826;", "&#x827;", "&#x828;", "&#x829;",
    "&#x82A;", "&#x82B;", "&#x82C;", "&#x82D;", "&#x859;", "&#x85A;",
    "&#x85B;", "&#x888;", "&#x890;", "&#x891;", "&#x898;", "&#x899;",
    "&#x89A;", "&#x89B;", "&#x89C;", "&#x89D;", "&#x89E;", "&#x89F;",
    "&#x8C9;", "&#x8CA;", "&#x8CB;", "&#x8CC;", "&#x8CD;", "&#x8CE;",
    "&#x8CF;", "&#x8D0;", "&#x8D1;", "&#x8D2;", "&#x8D3;", "&#x8D4;",
    "&#x8D5;", "&#x8D6;", "&#x8D7;", "&#x8D8;", "&#x8D9;", "&#x8DA;",
    "&#x8DB;", "&#x8DC;", "&#x8DD;", "&#x8DE;", "&#x8DF;", "&#x8E0;",
    "&#x8E1;", "&#x8E2;", "&#x8E3;", "&#x8E4;", "&#x8E5;", "&#x8E6;",
    "&#x8E7;", "&#x8E8;", "&#x8E9;", "&#x8EA;", "&#x8EB;", "&#x8EC;",
    "&#x8ED;", "&#x8EE;", "&#x8EF;", "&#x8F0;", "&#x8F1;", "&#x8F2;",
    "&#x8F3;", "&#x8F4;", "&#x8F5;", "&#x8F6;", "&#x8F7;", "&#x8F8;",
    "&#x8F9;", "&#x8FA;", "&#x8FB;", "&#x8FC;", "&#x8FD;", "&#x8FE;",
    "&#x8FF;", "&#x900;", "&#x901;", "&#x902;", "&#x93A;", "&#x93C;",
    "&#x941;", "&#x942;", "&#x943;", "&#x944;", "&#x945;", "&#x946;",
    "&#x947;", "&#x948;", "&#x94D;", "&#x951;", "&#x952;", "&#x953;",
    "&#x954;", "&#x955;", "&#x956;", "&#x957;", "&#x962;", "&#x963;",
    "&#x971;", "&#x981;", "&#x9BC;", "&#x9C1;", "&#x9C2;", "&#x9C3;",
    "&#x9C4;", "&#x9CD;", "&#x9E2;", "&#x9E3;", "&#x9FE;", "&#xA01;",
    "&#xA02;", "&#xA3C;", "&#xA41;", "&#xA42;", "&#xA47;", "&#xA48;",
    "&#xA4B;", "&#xA4C;", "&#xA4D;", "&#xA51;", "&#xA70;", "&#xA71;",
    "&#xA75;", "&#xA81;", "&#xA82;", "&#xABC;", "&#xAC1;", "&#xAC2;",
    "&#xAC3;", "&#xAC4;", "&#xAC5;", "&#xAC7;", "&#xAC8;", "&#xACD;",
    "&#xAE2;", "&#xAE3;", "&#xAFA;", "&#xAFB;", "&#xAFC;", "&#xAFD;",
    "&#xAFE;", "&#xAFF;", "&#xB01;", "&#xB3C;", "&#xB3F;", "&#xB41;",
    "&#xB42;", "&#xB43;", "&#xB44;", "&#xB4D;", "&#xB55;", "&#xB56;",
    "&#xB62;", "&#xB63;", "&#xB82;", "&#xBC0;", "&#xBCD;", "&#xC00;",
    "&#xC04;", "&#xC3C;", "&#xC3E;", "&#xC3F;", "&#xC40;", "&#xC46;",
    "&#xC47;", "&#xC48;", "&#xC4A;", "&#xC4B;", "&#xC4C;", "&#xC4D;",
    "&#xC55;", "&#xC56;", "&#xC62;", "&#xC63;", "&#xC81;", "&#xCBC;",
    "&#xCBF;", "&#xCC6;", "&#xCCC;", "&#xCCD;", "&#xCE2;", "&#xCE3;",
    "&#xD00;", "&#xD01;", "&#xD3B;", "&#xD3C;", "&#xD41;", "&#xD42;",
    "&#xD43;", "&#xD44;", "&#xD4D;", "&#xD62;", "&#xD63;", "&#xD81;",
    "&#xDCA;", "&#xDD2;", "&#xDD3;", "&#xDD4;", "&#xDD6;", "&#xE31;",
    "&#xE34;", "&#xE35;", "&#xE36;", "&#xE37;", "&#xE38;", "&#xE39;",
    "&#xE3A;", "&#xE46;", "&#xE47;", "&#xE48;", "&#xE49;", "&#xE4A;",
    "&#xE4B;", "&#xE4C;", "&#xE4D;", "&#xE4E;", "&#xEB1;", "&#xEB4;",
    "&#xEB5;", "&#xEB6;", "&#xEB7;", "&#xEB8;", "&#xEB9;", "&#xEBA;",
    "&#xEBB;", "&#xEBC;", "&#xEC6;", "&#xEC8;", "&#xEC9;", "&#xECA;",
    "&#xECB;", "&#xECC;", "&#xECD;", "&#xF18;", "&#xF19;", "&#xF35;",
    "&#xF37;", "&#xF39;", "&#xF71;", "&#xF72;", "&#xF73;", "&#xF74;",
    "&#xF75;", "&#xF76;", "&#xF77;", "&#xF78;", "&#xF79;", "&#xF7A;",
    "&#xF7B;", "&#xF7C;", "&#xF7D;", "&#xF7E;", "&#xF80;", "&#xF81;",
    "&#xF82;", "&#xF83;", "&#xF84;", "&#xF86;", "&#xF87;", "&#xF8D;",
    "&#xF8E;", "&#xF8F;", "&#xF90;", "&#xF91;", "&#xF92;", "&#xF93;",
    "&#xF94;", "&#xF95;", "&#xF96;", "&#xF97;", "&#xF99;", "&#xF9A;",
    "&#xF9B;", "&#xF9C;", "&#xF9D;", "&#xF9E;", "&#xF9F;", "&#xFA0;",
    "&#xFA1;", "&#xFA2;", "&#xFA3;", "&#xFA4;", "&#xFA5;", "&#xFA6;",
    "&#xFA7;", "&#xFA8;", "&#xFA9;", "&#xFAA;", "&#xFAB;", "&#xFAC;",
    "&#xFAD;", "&#xFAE;", "&#xFAF;", "&#xFB0;", "&#xFB1;", "&#xFB2;",
    "&#xFB3;", "&#xFB4;", "&#xFB5;", "&#xFB6;", "&#xFB7;", "&#xFB8;",
    "&#xFB9;", "&#xFBA;", "&#xFBB;", "&#xFBC;", "&#xFC6;", "&#x102D;",
    "&#x102E;", "&#x102F;", "&#x1030;", "&#x1032;", "&#x1033;", "&#x1034;",
    "&#x1035;", "&#x1036;", "&#x1037;", "&#x1039;", "&#x103A;", "&#x103D;",
    "&#x103E;", "&#x1058;", "&#x1059;", "&#x105E;", "&#x105F;", "&#x1060;",
    "&#x1071;", "&#x1072;", "&#x1073;", "&#x1074;", "&#x1082;", "&#x1085;",
    "&#x1086;", "&#x108D;", "&#x109D;", "&#x10FC;", "&#x135D;", "&#x135E;",
    "&#x135F;", "&#x1712;", "&#x1713;", "&#x1714;", "&#x1732;", "&#x1733;",
    "&#x1752;", "&#x1753;", "&#x1772;", "&#x1773;", "&#x17B4;", "&#x17B5;",
    "&#x17B7;", "&#x17B8;", "&#x17B9;", "&#x17BA;", "&#x17BB;", "&#x17BC;",
    "&#x17BD;", "&#x17C6;", "&#x17C9;", "&#x17CA;", "&#x17CB;", "&#x17CC;",
    "&#x17CD;", "&#x17CE;", "&#x17CF;", "&#x17D0;", "&#x17D1;", "&#x17D2;",
    "&#x17D3;", "&#x17D7;", "&#x17DD;", "&#x180B;", "&#x180C;", "&#x180D;",
    "&#x180E;", "&#x180F;", "&#x1843;", "&#x1885;", "&#x1886;", "&#x18A9;",
    "&#x1920;", "&#x1921;", "&#x1922;", "&#x1927;", "&#x1928;", "&#x1932;",
    "&#x1939;", "&#x193A;", "&#x193B;", "&#x1A17;", "&#x1A18;", "&#x1A1B;",
    "&#x1A56;", "&#x1A58;", "&#x1A59;", "&#x1A5A;", "&#x1A5B;", "&#x1A5C;",
    "&#x1A5D;", "&#x1A5E;", "&#x1A60;", "&#x1A62;", "&#x1A65;", "&#x1A66;",
    "&#x1A67;", "&#x1A68;", "&#x1A69;", "&#x1A6A;", "&#x1A6B;", "&#x1A6C;",
    "&#x1A73;", "&#x1A74;", "&#x1A75;", "&#x1A76;", "&#x1A77;", "&#x1A78;",
    "&#x1A79;", "&#x1A7A;", "&#x1A7B;", "&#x1A7C;", "&#x1A7F;", "&#x1AA7;",
    "&#x1AB0;", "&#x1AB1;", "&#x1AB2;", "&#x1AB3;", "&#x1AB4;", "&#x1AB5;",
    "&#x1AB6;", "&#x1AB7;", "&#x1AB8;", "&#x1AB9;", "&#x1ABA;", "&#x1ABB;",
    "&#x1ABC;", "&#x1ABD;", "&#x1ABE;", "&#x1ABF;", "&#x1AC0;", "&#x1AC1;",
    "&#x1AC2;", "&#x1AC3;", "&#x1AC4;", "&#x1AC5;", "&#x1AC6;", "&#x1AC7;",
    "&#x1AC8;", "&#x1AC9;", "&#x1ACA;", "&#x1ACB;", "&#x1ACC;", "&#x1ACD;",
    "&#x1ACE;", "&#x1B00;", "&#x1B01;", "&#x1B02;", "&#x1B03;", "&#x1B34;",
    "&#x1B36;", "&#x1B37;", "&#x1B38;", "&#x1B39;", "&#x1B3A;", "&#x1B3C;",
    "&#x1B42;", "&#x1B6B;", "&#x1B6C;", "&#x1B6D;", "&#x1B6E;", "&#x1B6F;",
    "&#x1B70;", "&#x1B71;", "&#x1B72;", "&#x1B73;", "&#x1B80;", "&#x1B81;",
    "&#x1BA2;", "&#x1BA3;", "&#x1BA4;", "&#x1BA5;", "&#x1BA8;", "&#x1BA9;",
    "&#x1BAB;", "&#x1BAC;", "&#x1BAD;", "&#x1BE6;", "&#x1BE8;", "&#x1BE9;",
    "&#x1BED;", "&#x1BEF;", "&#x1BF0;", "&#x1BF1;", "&#x1C2C;", "&#x1C2D;",
    "&#x1C2E;", "&#x1C2F;", "&#x1C30;", "&#x1C31;", "&#x1C32;", "&#x1C33;",
    "&#x1C36;", "&#x1C37;", "&#x1C78;", "&#x1C79;", "&#x1C7A;", "&#x1C7B;",
    "&#x1C7C;", "&#x1C7D;", "&#x1CD0;", "&#x1CD1;", "&#x1CD2;", "&#x1CD4;",
    "&#x1CD5;", "&#x1CD6;", "&#x1CD7;", "&#x1CD8;", "&#x1CD9;", "&#x1CDA;",
    "&#x1CDB;", "&#x1CDC;", "&#x1CDD;", "&#x1CDE;", "&#x1CDF;", "&#x1CE0;",
    "&#x1CE2;", "&#x1CE3;", "&#x1CE4;", "&#x1CE5;", "&#x1CE6;", "&#x1CE7;",
    "&#x1CE8;", "&#x1CED;", "&#x1CF4;", "&#x1CF8;", "&#x1CF9;", "&#x1D2C;",
    "&#x1D2D;", "&#x1D2E;", "&#x1D2F;", "&#x1D30;", "&#x1D31;", "&#x1D32;",
    "&#x1D33;", "&#x1D34;", "&#x1D35;", "&#x1D36;", "&#x1D37;", "&#x1D38;",
    "&#x1D39;", "&#x1D3A;", "&#x1D3B;", "&#x1D3C;", "&#x1D3D;", "&#x1D3E;",
    "&#x1D3F;", "&#x1D40;", "&#x1D41;", "&#x1D42;", "&#x1D43;", "&#x1D44;",
    "&#x1D45;", "&#x1D46;", "&#x1D47;", "&#x1D48;", "&#x1D49;", "&#x1D4A;",
    "&#x1D4B;", "&#x1D4C;", "&#x1D4D;", "&#x1D4E;", "&#x1D4F;", "&#x1D50;",
    "&#x1D51;", "&#x1D52;", "&#x1D53;", "&#x1D54;", "&#x1D55;", "&#x1D56;",
    "&#x1D57;", "&#x1D58;", "&#x1D59;", "&#x1D5A;", "&#x1D5B;", "&#x1D5C;",
    "&#x1D5D;", "&#x1D5E;", "&#x1D5F;", "&#x1D60;", "&#x1D61;", "&#x1D62;",
    "&#x1D63;", "&#x1D64;", "&#x1D65;", "&#x1D66;", "&#x1D67;", "&#x1D68;",
    "&#x1D69;", "&#x1D6A;", "&#x1D78;", "&#x1D9B;", "&#x1D9C;", "&#x1D9D;",
    "&#x1D9E;", "&#x1D9F;", "&#x1DA0;", "&#x1DA1;", "&#x1DA2;", "&#x1DA3;",
    "&#x1DA4;", "&#x1DA5;", "&#x1DA6;", "&#x1DA7;", "&#x1DA8;", "&#x1DA9;",
    "&#x1DAA;", "&#x1DAB;", "&#x1DAC;", "&#x1DAD;", "&#x1DAE;", "&#x1DAF;",
    "&#x1DB0;", "&#x1DB1;", "&#x1DB2;", "&#x1DB3;", "&#x1DB4;", "&#x1DB5;",
    "&#x1DB6;", "&#x1DB7;", "&#x1DB8;", "&#x1DB9;", "&#x1DBA;", "&#x1DBB;",
    "&#x1DBC;", "&#x1DBD;", "&#x1DBE;", "&#x1DBF;", "&#x1DC0;", "&#x1DC1;",
    "&#x1DC2;", "&#x1DC3;", "&#x1DC4;", "&#x1DC5;", "&#x1DC6;", "&#x1DC7;",
    "&#x1DC8;", "&#x1DC9;", "&#x1DCA;", "&#x1DCB;", "&#x1DCC;", "&#x1DCD;",
    "&#x1DCE;", "&#x1DCF;", "&#x1DD0;", "&#x1DD1;", "&#x1DD2;", "&#x1DD3;",
    "&#x1DD4;", "&#x1DD5;", "&#x1DD6;", "&#x1DD7;", "&#x1DD8;", "&#x1DD9;",
    "&#x1DDA;", "&#x1DDB;", "&#x1DDC;", "&#x1DDD;", "&#x1DDE;", "&#x1DDF;",
    "&#x1DE0;", "&#x1DE1;", "&#x1DE2;", "&#x1DE3;", "&#x1DE4;", "&#x1DE5;",
    "&#x1DE6;", "&#x1DE7;", "&#x1DE8;", "&#x1DE9;", "&#x1DEA;", "&#x1DEB;",
    "&#x1DEC;", "&#x1DED;", "&#x1DEE;", "&#x1DEF;", "&#x1DF0;", "&#x1DF1;",
    "&#x1DF2;", "&#x1DF3;", "&#x1DF4;", "&#x1DF5;", "&#x1DF6;", "&#x1DF7;",
    "&#x1DF8;", "&#x1DF9;", "&#x1DFA;", "&#x1DFB;", "&#x1DFC;", "&#x1DFD;",
    "&#x1DFE;", "&#x1DFF;", "&#x1FBD;", "&#x1FBF;", "&#x1FC0;", "&#x1FC1;",
    "&#x1FCD;", "&#x1FCE;", "&#x1FCF;", "&#x1FDD;", "&#x1FDE;", "&#x1FDF;",
    "&#x1FED;", "&#x1FEE;", "&#x1FEF;", "&#x1FFD;", "&#x1FFE;", "&#x200B;",
    "&#x200C;", "&#x200D;", "&#x200E;", "&#x200F;", "&#x2018;", "&#x2019;",
    "&#x2024;", "&#x2027;", "&#x202A;", "&#x202B;", "&#x202C;", "&#x202D;",
    "&#x202E;", "&#x2060;", "&#x2061;", "&#x2062;", "&#x2063;", "&#x2064;",
    "&#x2066;", "&#x2067;", "&#x2068;", "&#x2069;", "&#x206A;", "&#x206B;",
    "&#x206C;", "&#x206D;", "&#x206E;", "&#x206F;", "&#x2071;", "&#x207F;",
    "&#x2090;", "&#x2091;", "&#x2092;", "&#x2093;", "&#x2094;", "&#x2095;",
    "&#x2096;", "&#x2097;", "&#x2098;", "&#x2099;", "&#x209A;", "&#x209B;",
    "&#x209C;", "&#x20D0;", "&#x20D1;", "&#x20D2;", "&#x20D3;", "&#x20D4;",
    "&#x20D5;", "&#x20D6;", "&#x20D7;", "&#x20D8;", "&#x20D9;", "&#x20DA;",
    "&#x20DB;", "&#x20DC;", "&#x20DD;", "&#x20DE;", "&#x20DF;", "&#x20E0;",
    "&#x20E1;", "&#x20E2;", "&#x20E3;", "&#x20E4;", "&#x20E5;", "&#x20E6;",
    "&#x20E7;", "&#x20E8;", "&#x20E9;", "&#x20EA;", "&#x20EB;", "&#x20EC;",
    "&#x20ED;", "&#x20EE;", "&#x20EF;", "&#x20F0;", "&#x2C7C;", "&#x2C7D;",
    "&#x2CEF;", "&#x2CF0;", "&#x2CF1;", "&#x2D6F;", "&#x2D7F;", "&#x2DE0;",
    "&#x2DE1;", "&#x2DE2;", "&#x2DE3;", "&#x2DE4;", "&#x2DE5;", "&#x2DE6;",
    "&#x2DE7;", "&#x2DE8;", "&#x2DE9;", "&#x2DEA;", "&#x2DEB;", "&#x2DEC;",
    "&#x2DED;", "&#x2DEE;", "&#x2DEF;", "&#x2DF0;", "&#x2DF1;", "&#x2DF2;",
    "&#x2DF3;", "&#x2DF4;", "&#x2DF5;", "&#x2DF6;", "&#x2DF7;", "&#x2DF8;",
    "&#x2DF9;", "&#x2DFA;", "&#x2DFB;", "&#x2DFC;", "&#x2DFD;", "&#x2DFE;",
    "&#x2DFF;", "&#x2E2F;", "&#x3005;", "&#x302A;", "&#x302B;", "&#x302C;",
    "&#x302D;", "&#x3031;", "&#x3032;", "&#x3033;", "&#x3034;", "&#x3035;",
    "&#x303B;", "&#x3099;", "&#x309A;", "&#x309B;", "&#x309C;", "&#x309D;",
    "&#x309E;", "&#x30FC;", "&#x30FD;", "&#x30FE;", "&#xA015;", "&#xA4F8;",
    "&#xA4F9;", "&#xA4FA;", "&#xA4FB;", "&#xA4FC;", "&#xA4FD;", "&#xA60C;",
    "&#xA66F;", "&#xA670;", "&#xA671;", "&#xA672;", "&#xA674;", "&#xA675;",
    "&#xA676;", "&#xA677;", "&#xA678;", "&#xA679;", "&#xA67A;", "&#xA67B;",
    "&#xA67C;", "&#xA67D;", "&#xA67F;", "&#xA69C;", "&#xA69D;", "&#xA69E;",
    "&#xA69F;", "&#xA6F0;", "&#xA6F1;", "&#xA700;", "&#xA701;", "&#xA702;",
    "&#xA703;", "&#xA704;", "&#xA705;", "&#xA706;", "&#xA707;", "&#xA708;",
    "&#xA709;", "&#xA70A;", "&#xA70B;", "&#xA70C;", "&#xA70D;", "&#xA70E;",
    "&#xA70F;", "&#xA710;", "&#xA711;", "&#xA712;", "&#xA713;", "&#xA714;",
    "&#xA715;", "&#xA716;", "&#xA717;", "&#xA718;", "&#xA719;", "&#xA71A;",
    "&#xA71B;", "&#xA71C;", "&#xA71D;", "&#xA71E;", "&#xA71F;", "&#xA720;",
    "&#xA721;", "&#xA770;", "&#xA788;", "&#xA789;", "&#xA78A;", "&#xA7F2;",
    "&#xA7F3;", "&#xA7F4;", "&#xA7F8;", "&#xA7F9;", "&#xA802;", "&#xA806;",
    "&#xA80B;", "&#xA825;", "&#xA826;", "&#xA82C;", "&#xA8C4;", "&#xA8C5;",
    "&#xA8E0;", "&#xA8E1;", "&#xA8E2;", "&#xA8E3;", "&#xA8E4;", "&#xA8E5;",
    "&#xA8E6;", "&#xA8E7;", "&#xA8E8;", "&#xA8E9;", "&#xA8EA;", "&#xA8EB;",
    "&#xA8EC;", "&#xA8ED;", "&#xA8EE;", "&#xA8EF;", "&#xA8F0;", "&#xA8F1;",
    "&#xA8FF;", "&#xA926;", "&#xA927;", "&#xA928;", "&#xA929;", "&#xA92A;",
    "&#xA92B;", "&#xA92C;", "&#xA92D;", "&#xA947;", "&#xA948;", "&#xA949;",
    "&#xA94A;", "&#xA94B;", "&#xA94C;", "&#xA94D;", "&#xA94E;", "&#xA94F;",
    "&#xA950;", "&#xA951;", "&#xA980;", "&#xA981;", "&#xA982;", "&#xA9B3;",
    "&#xA9B6;", "&#xA9B7;", "&#xA9B8;", "&#xA9B9;", "&#xA9BC;", "&#xA9BD;",
    "&#xA9CF;", "&#xA9E5;", "&#xA9E6;", "&#xAA29;", "&#xAA2A;", "&#xAA2B;",
    "&#xAA2C;", "&#xAA2D;", "&#xAA2E;", "&#xAA31;", "&#xAA32;", "&#xAA35;",
    "&#xAA36;", "&#xAA43;", "&#xAA4C;", "&#xAA70;", "&#xAA7C;", "&#xAAB0;",
    "&#xAAB2;", "&#xAAB3;", "&#xAAB4;", "&#xAAB7;", "&#xAAB8;", "&#xAABE;",
    "&#xAABF;", "&#xAAC1;", "&#xAADD;", "&#xAAEC;", "&#xAAED;", "&#xAAF3;",
    "&#xAAF4;", "&#xAAF6;", "&#xAB5B;", "&#xAB5C;", "&#xAB5D;", "&#xAB5E;",
    "&#xAB5F;", "&#xAB69;", "&#xAB6A;", "&#xAB6B;", "&#xABE5;", "&#xABE8;",
    "&#xABED;", "&#xFB1E;", "&#xFBB2;", "&#xFBB3;", "&#xFBB4;", "&#xFBB5;",
    "&#xFBB6;", "&#xFBB7;", "&#xFBB8;", "&#xFBB9;", "&#xFBBA;", "&#xFBBB;",
    "&#xFBBC;", "&#xFBBD;", "&#xFBBE;", "&#xFBBF;", "&#xFBC0;", "&#xFBC1;",
    "&#xFBC2;", "&#xFE00;", "&#xFE01;", "&#xFE02;", "&#xFE03;", "&#xFE04;",
    "&#xFE05;", "&#xFE06;", "&#xFE07;", "&#xFE08;", "&#xFE09;", "&#xFE0A;",
    "&#xFE0B;", "&#xFE0C;", "&#xFE0D;", "&#xFE0E;", "&#xFE0F;", "&#xFE13;",
    "&#xFE20;", "&#xFE21;", "&#xFE22;", "&#xFE23;", "&#xFE24;", "&#xFE25;",
    "&#xFE26;", "&#xFE27;", "&#xFE28;", "&#xFE29;", "&#xFE2A;", "&#xFE2B;",
    "&#xFE2C;", "&#xFE2D;", "&#xFE2E;", "&#xFE2F;", "&#xFE52;", "&#xFE55;",
    "&#xFEFF;", "&#xFF07;", "&#xFF0E;", "&#xFF1A;", "&#xFF3E;", "&#xFF40;",
    "&#xFF70;", "&#xFF9E;", "&#xFF9F;", "&#xFFE3;", "&#xFFF9;", "&#xFFFA;",
    "&#xFFFB;", "&#x101FD;", "&#x102E0;", "&#x10376;", "&#x10377;",
    "&#x10378;", "&#x10379;", "&#x1037A;", "&#x10780;", "&#x10781;",
    "&#x10782;", "&#x10783;", "&#x10784;", "&#x10785;", "&#x10787;",
    "&#x10788;", "&#x10789;", "&#x1078A;", "&#x1078B;", "&#x1078C;",
    "&#x1078D;", "&#x1078E;", "&#x1078F;", "&#x10790;", "&#x10791;",
    "&#x10792;", "&#x10793;", "&#x10794;", "&#x10795;", "&#x10796;",
    "&#x10797;", "&#x10798;", "&#x10799;", "&#x1079A;", "&#x1079B;",
    "&#x1079C;", "&#x1079D;", "&#x1079E;", "&#x1079F;", "&#x107A0;",
    "&#x107A1;", "&#x107A2;", "&#x107A3;", "&#x107A4;", "&#x107A5;",
    "&#x107A6;", "&#x107A7;", "&#x107A8;", "&#x107A9;", "&#x107AA;",
    "&#x107AB;", "&#x107AC;", "&#x107AD;", "&#x107AE;", "&#x107AF;",
    "&#x107B0;", "&#x107B2;", "&#x107B3;", "&#x107B4;", "&#x107B5;",
    "&#x107B6;", "&#x107B7;", "&#x107B8;", "&#x107B9;", "&#x107BA;",
    "&#x10A01;", "&#x10A02;", "&#x10A03;", "&#x10A05;", "&#x10A06;",
    "&#x10A0C;", "&#x10A0D;", "&#x10A0E;", "&#x10A0F;", "&#x10A38;",
    "&#x10A39;", "&#x10A3A;", "&#x10A3F;", "&#x10AE5;", "&#x10AE6;",
    "&#x10D24;", "&#x10D25;", "&#x10D26;", "&#x10D27;", "&#x10EAB;",
    "&#x10EAC;", "&#x10F46;", "&#x10F47;", "&#x10F48;", "&#x10F49;",
    "&#x10F4A;", "&#x10F4B;", "&#x10F4C;", "&#x10F4D;", "&#x10F4E;",
    "&#x10F4F;", "&#x10F50;", "&#x10F82;", "&#x10F83;", "&#x10F84;",
    "&#x10F85;", "&#x11001;", "&#x11038;", "&#x11039;", "&#x1103A;",
    "&#x1103B;", "&#x1103C;", "&#x1103D;", "&#x1103E;", "&#x1103F;",
    "&#x11040;", "&#x11041;", "&#x11042;", "&#x11043;", "&#x11044;",
    "&#x11045;", "&#x11046;", "&#x11070;", "&#x11073;", "&#x11074;",
    "&#x1107F;", "&#x11080;", "&#x11081;", "&#x110B3;", "&#x110B4;",
    "&#x110B5;", "&#x110B6;", "&#x110B9;", "&#x110BA;", "&#x110BD;",
    "&#x110C2;", "&#x110CD;", "&#x11100;", "&#x11101;", "&#x11102;",
    "&#x11127;", "&#x11128;", "&#x11129;", "&#x1112A;", "&#x1112B;",
    "&#x1112D;", "&#x1112E;", "&#x1112F;", "&#x11130;", "&#x11131;",
    "&#x11132;", "&#x11133;", "&#x11134;", "&#x11173;", "&#x11180;",
    "&#x11181;", "&#x111B6;", "&#x111B7;", "&#x111B8;", "&#x111B9;",
    "&#x111BA;", "&#x111BB;", "&#x111BC;", "&#x111BD;", "&#x111BE;",
    "&#x111C9;", "&#x111CA;", "&#x111CB;", "&#x111CC;", "&#x111CF;",
    "&#x1122F;", "&#x11230;", "&#x11231;", "&#x11234;", "&#x11236;",
    "&#x11237;", "&#x1123E;", "&#x112DF;", "&#x112E3;", "&#x112E4;",
    "&#x112E5;", "&#x112E6;", "&#x112E7;", "&#x112E8;", "&#x112E9;",
    "&#x112EA;", "&#x11300;", "&#x11301;", "&#x1133B;", "&#x1133C;",
    "&#x11340;", "&#x11366;", "&#x11367;", "&#x11368;", "&#x11369;",
    "&#x1136A;", "&#x1136B;", "&#x1136C;", "&#x11370;", "&#x11371;",
    "&#x11372;", "&#x11373;", "&#x11374;", "&#x11438;", "&#x11439;",
    "&#x1143A;", "&#x1143B;", "&#x1143C;", "&#x1143D;", "&#x1143E;",
    "&#x1143F;", "&#x11442;", "&#x11443;", "&#x11444;", "&#x11446;",
    "&#x1145E;", "&#x114B3;", "&#x114B4;", "&#x114B5;", "&#x114B6;",
    "&#x114B7;", "&#x114B8;", "&#x114BA;", "&#x114BF;", "&#x114C0;",
    "&#x114C2;", "&#x114C3;", "&#x115B2;", "&#x115B3;", "&#x115B4;",
    "&#x115B5;", "&#x115BC;", "&#x115BD;", "&#x115BF;", "&#x115C0;",
    "&#x115DC;", "&#x115DD;", "&#x11633;", "&#x11634;", "&#x11635;",
    "&#x11636;", "&#x11637;", "&#x11638;", "&#x11639;", "&#x1163A;",
    "&#x1163D;", "&#x1163F;", "&#x11640;", "&#x116AB;", "&#x116AD;",
    "&#x116B0;", "&#x116B1;", "&#x116B2;", "&#x116B3;", "&#x116B4;",
    "&#x116B5;", "&#x116B7;", "&#x1171D;", "&#x1171E;", "&#x1171F;",
    "&#x11722;", "&#x11723;", "&#x11724;", "&#x11725;", "&#x11727;",
    "&#x11728;", "&#x11729;", "&#x1172A;", "&#x1172B;", "&#x1182F;",
    "&#x11830;", "&#x11831;", "&#x11832;", "&#x11833;", "&#x11834;",
    "&#x11835;", "&#x11836;", "&#x11837;", "&#x11839;", "&#x1183A;",
    "&#x1193B;", "&#x1193C;", "&#x1193E;", "&#x11943;", "&#x119D4;",
    "&#x119D5;", "&#x119D6;", "&#x119D7;", "&#x119DA;", "&#x119DB;",
    "&#x119E0;", "&#x11A01;", "&#x11A02;", "&#x11A03;", "&#x11A04;",
    "&#x11A05;", "&#x11A06;", "&#x11A07;", "&#x11A08;", "&#x11A09;",
    "&#x11A0A;", "&#x11A33;", "&#x11A34;", "&#x11A35;", "&#x11A36;",
    "&#x11A37;", "&#x11A38;", "&#x11A3B;", "&#x11A3C;", "&#x11A3D;",
    "&#x11A3E;", "&#x11A47;", "&#x11A51;", "&#x11A52;", "&#x11A53;",
    "&#x11A54;", "&#x11A55;", "&#x11A56;", "&#x11A59;", "&#x11A5A;",
    "&#x11A5B;", "&#x11A8A;", "&#x11A8B;", "&#x11A8C;", "&#x11A8D;",
    "&#x11A8E;", "&#x11A8F;", "&#x11A90;", "&#x11A91;", "&#x11A92;",
    "&#x11A93;", "&#x11A94;", "&#x11A95;", "&#x11A96;", "&#x11A98;",
    "&#x11A99;", "&#x11C30;", "&#x11C31;", "&#x11C32;", "&#x11C33;",
    "&#x11C34;", "&#x11C35;", "&#x11C36;", "&#x11C38;", "&#x11C39;",
    "&#x11C3A;", "&#x11C3B;", "&#x11C3C;", "&#x11C3D;", "&#x11C3F;",
    "&#x11C92;", "&#x11C93;", "&#x11C94;", "&#x11C95;", "&#x11C96;",
    "&#x11C97;", "&#x11C98;", "&#x11C99;", "&#x11C9A;", "&#x11C9B;",
    "&#x11C9C;", "&#x11C9D;", "&#x11C9E;", "&#x11C9F;", "&#x11CA0;",
    "&#x11CA1;", "&#x11CA2;", "&#x11CA3;", "&#x11CA4;", "&#x11CA5;",
    "&#x11CA6;", "&#x11CA7;", "&#x11CAA;", "&#x11CAB;", "&#x11CAC;",
    "&#x11CAD;", "&#x11CAE;", "&#x11CAF;", "&#x11CB0;", "&#x11CB2;",
    "&#x11CB3;", "&#x11CB5;", "&#x11CB6;", "&#x11D31;", "&#x11D32;",
    "&#x11D33;", "&#x11D34;", "&#x11D35;", "&#x11D36;", "&#x11D3A;",
    "&#x11D3C;", "&#x11D3D;", "&#x11D3F;", "&#x11D40;", "&#x11D41;",
    "&#x11D42;", "&#x11D43;", "&#x11D44;", "&#x11D45;", "&#x11D47;",
    "&#x11D90;", "&#x11D91;", "&#x11D95;", "&#x11D97;", "&#x11EF3;",
    "&#x11EF4;", "&#x13430;", "&#x13431;", "&#x13432;", "&#x13433;",
    "&#x13434;", "&#x13435;", "&#x13436;", "&#x13437;", "&#x13438;",
    "&#x16AF0;", "&#x16AF1;", "&#x16AF2;", "&#x16AF3;", "&#x16AF4;",
    "&#x16B30;", "&#x16B31;", "&#x16B32;", "&#x16B33;", "&#x16B34;",
    "&#x16B35;", "&#x16B36;", "&#x16B40;", "&#x16B41;", "&#x16B42;",
    "&#x16B43;", "&#x16F4F;", "&#x16F8F;", "&#x16F90;", "&#x16F91;",
    "&#x16F92;", "&#x16F93;", "&#x16F94;", "&#x16F95;", "&#x16F96;",
    "&#x16F97;", "&#x16F98;", "&#x16F99;", "&#x16F9A;", "&#x16F9B;",
    "&#x16F9C;", "&#x16F9D;", "&#x16F9E;", "&#x16F9F;", "&#x16FE0;",
    "&#x16FE1;", "&#x16FE3;", "&#x16FE4;", "&#x1AFF0;", "&#x1AFF1;",
    "&#x1AFF2;", "&#x1AFF3;", "&#x1AFF5;", "&#x1AFF6;", "&#x1AFF7;",
    "&#x1AFF8;", "&#x1AFF9;", "&#x1AFFA;", "&#x1AFFB;", "&#x1AFFD;",
    "&#x1AFFE;", "&#x1BC9D;", "&#x1BC9E;", "&#x1BCA0;", "&#x1BCA1;",
    "&#x1BCA2;", "&#x1BCA3;", "&#x1CF00;", "&#x1CF01;", "&#x1CF02;",
    "&#x1CF03;", "&#x1CF04;", "&#x1CF05;", "&#x1CF06;", "&#x1CF07;",
    "&#x1CF08;", "&#x1CF09;", "&#x1CF0A;", "&#x1CF0B;", "&#x1CF0C;",
    "&#x1CF0D;", "&#x1CF0E;", "&#x1CF0F;", "&#x1CF10;", "&#x1CF11;",
    "&#x1CF12;", "&#x1CF13;", "&#x1CF14;", "&#x1CF15;", "&#x1CF16;",
    "&#x1CF17;", "&#x1CF18;", "&#x1CF19;", "&#x1CF1A;", "&#x1CF1B;",
    "&#x1CF1C;", "&#x1CF1D;", "&#x1CF1E;", "&#x1CF1F;", "&#x1CF20;",
    "&#x1CF21;", "&#x1CF22;", "&#x1CF23;", "&#x1CF24;", "&#x1CF25;",
    "&#x1CF26;", "&#x1CF27;", "&#x1CF28;", "&#x1CF29;", "&#x1CF2A;",
    "&#x1CF2B;", "&#x1CF2C;", "&#x1CF2D;", "&#x1CF30;", "&#x1CF31;",
    "&#x1CF32;", "&#x1CF33;", "&#x1CF34;", "&#x1CF35;", "&#x1CF36;",
    "&#x1CF37;", "&#x1CF38;", "&#x1CF39;", "&#x1CF3A;", "&#x1CF3B;",
    "&#x1CF3C;", "&#x1CF3D;", "&#x1CF3E;", "&#x1CF3F;", "&#x1CF40;",
    "&#x1CF41;", "&#x1CF42;", "&#x1CF43;", "&#x1CF44;", "&#x1CF45;",
    "&#x1CF46;", "&#x1D167;", "&#x1D168;", "&#x1D169;", "&#x1D173;",
    "&#x1D174;", "&#x1D175;", "&#x1D176;", "&#x1D177;", "&#x1D178;",
    "&#x1D179;", "&#x1D17A;", "&#x1D17B;", "&#x1D17C;", "&#x1D17D;",
    "&#x1D17E;", "&#x1D17F;", "&#x1D180;", "&#x1D181;", "&#x1D182;",
    "&#x1D185;", "&#x1D186;", "&#x1D187;", "&#x1D188;", "&#x1D189;",
    "&#x1D18A;", "&#x1D18B;", "&#x1D1AA;", "&#x1D1AB;", "&#x1D1AC;",
    "&#x1D1AD;", "&#x1D242;", "&#x1D243;", "&#x1D244;", "&#x1DA00;",
    "&#x1DA01;", "&#x1DA02;", "&#x1DA03;", "&#x1DA04;", "&#x1DA05;",
    "&#x1DA06;", "&#x1DA07;", "&#x1DA08;", "&#x1DA09;", "&#x1DA0A;",
    "&#x1DA0B;", "&#x1DA0C;", "&#x1DA0D;", "&#x1DA0E;", "&#x1DA0F;",
    "&#x1DA10;", "&#x1DA11;", "&#x1DA12;", "&#x1DA13;", "&#x1DA14;",
    "&#x1DA15;", "&#x1DA16;", "&#x1DA17;", "&#x1DA18;", "&#x1DA19;",
    "&#x1DA1A;", "&#x1DA1B;", "&#x1DA1C;", "&#x1DA1D;", "&#x1DA1E;",
    "&#x1DA1F;", "&#x1DA20;", "&#x1DA21;", "&#x1DA22;", "&#x1DA23;",
    "&#x1DA24;", "&#x1DA25;", "&#x1DA26;", "&#x1DA27;", "&#x1DA28;",
    "&#x1DA29;", "&#x1DA2A;", "&#x1DA2B;", "&#x1DA2C;", "&#x1DA2D;",
    "&#x1DA2E;", "&#x1DA2F;", "&#x1DA30;", "&#x1DA31;", "&#x1DA32;",
    "&#x1DA33;", "&#x1DA34;", "&#x1DA35;", "&#x1DA36;", "&#x1DA3B;",
    "&#x1DA3C;", "&#x1DA3D;", "&#x1DA3E;", "&#x1DA3F;", "&#x1DA40;",
    "&#x1DA41;", "&#x1DA42;", "&#x1DA43;", "&#x1DA44;", "&#x1DA45;",
    "&#x1DA46;", "&#x1DA47;", "&#x1DA48;", "&#x1DA49;", "&#x1DA4A;",
    "&#x1DA4B;", "&#x1DA4C;", "&#x1DA4D;", "&#x1DA4E;", "&#x1DA4F;",
    "&#x1DA50;", "&#x1DA51;", "&#x1DA52;", "&#x1DA53;", "&#x1DA54;",
    "&#x1DA55;", "&#x1DA56;", "&#x1DA57;", "&#x1DA58;", "&#x1DA59;",
    "&#x1DA5A;", "&#x1DA5B;", "&#x1DA5C;", "&#x1DA5D;", "&#x1DA5E;",
    "&#x1DA5F;", "&#x1DA60;", "&#x1DA61;", "&#x1DA62;", "&#x1DA63;",
    "&#x1DA64;", "&#x1DA65;", "&#x1DA66;", "&#x1DA67;", "&#x1DA68;",
    "&#x1DA69;", "&#x1DA6A;", "&#x1DA6B;", "&#x1DA6C;", "&#x1DA75;",
    "&#x1DA84;", "&#x1DA9B;", "&#x1DA9C;", "&#x1DA9D;", "&#x1DA9E;",
    "&#x1DA9F;", "&#x1DAA1;", "&#x1DAA2;", "&#x1DAA3;", "&#x1DAA4;",
    "&#x1DAA5;", "&#x1DAA6;", "&#x1DAA7;", "&#x1DAA8;", "&#x1DAA9;",
    "&#x1DAAA;", "&#x1DAAB;", "&#x1DAAC;", "&#x1DAAD;", "&#x1DAAE;",
    "&#x1DAAF;", "&#x1E000;", "&#x1E001;", "&#x1E002;", "&#x1E003;",
    "&#x1E004;", "&#x1E005;", "&#x1E006;", "&#x1E008;", "&#x1E009;",
    "&#x1E00A;", "&#x1E00B;", "&#x1E00C;", "&#x1E00D;", "&#x1E00E;",
    "&#x1E00F;", "&#x1E010;", "&#x1E011;", "&#x1E012;", "&#x1E013;",
    "&#x1E014;", "&#x1E015;", "&#x1E016;", "&#x1E017;", "&#x1E018;",
    "&#x1E01B;", "&#x1E01C;", "&#x1E01D;", "&#x1E01E;", "&#x1E01F;",
    "&#x1E020;", "&#x1E021;", "&#x1E023;", "&#x1E024;", "&#x1E026;",
    "&#x1E027;", "&#x1E028;", "&#x1E029;", "&#x1E02A;", "&#x1E130;",
    "&#x1E131;", "&#x1E132;", "&#x1E133;", "&#x1E134;", "&#x1E135;",
    "&#x1E136;", "&#x1E137;", "&#x1E138;", "&#x1E139;", "&#x1E13A;",
    "&#x1E13B;", "&#x1E13C;", "&#x1E13D;", "&#x1E2AE;", "&#x1E2EC;",
    "&#x1E2ED;", "&#x1E2EE;", "&#x1E2EF;", "&#x1E8D0;", "&#x1E8D1;",
    "&#x1E8D2;", "&#x1E8D3;", "&#x1E8D4;", "&#x1E8D5;", "&#x1E8D6;",
    "&#x1E944;", "&#x1E945;", "&#x1E946;", "&#x1E947;", "&#x1E948;",
    "&#x1E949;", "&#x1E94A;", "&#x1E94B;", "&#x1F3FB;", "&#x1F3FC;",
    "&#x1F3FD;", "&#x1F3FE;", "&#x1F3FF;", "&#xE0001;", "&#xE0020;",
    "&#xE0021;", "&#xE0022;", "&#xE0023;", "&#xE0024;", "&#xE0025;",
    "&#xE0026;", "&#xE0027;", "&#xE0028;", "&#xE0029;", "&#xE002A;",
    "&#xE002B;", "&#xE002C;", "&#xE002D;", "&#xE002E;", "&#xE002F;",
    "&#xE0030;", "&#xE0031;", "&#xE0032;", "&#xE0033;", "&#xE0034;",
    "&#xE0035;", "&#xE0036;", "&#xE0037;", "&#xE0038;", "&#xE0039;",
    "&#xE003A;", "&#xE003B;", "&#xE003C;", "&#xE003D;", "&#xE003E;",
    "&#xE003F;", "&#xE0040;", "&#xE0041;", "&#xE0042;", "&#xE0043;",
    "&#xE0044;", "&#xE0045;", "&#xE0046;", "&#xE0047;", "&#xE0048;",
    "&#xE0049;", "&#xE004A;", "&#xE004B;", "&#xE004C;", "&#xE004D;",
    "&#xE004E;", "&#xE004F;", "&#xE0050;", "&#xE0051;", "&#xE0052;",
    "&#xE0053;", "&#xE0054;", "&#xE0055;", "&#xE0056;", "&#xE0057;",
    "&#xE0058;", "&#xE0059;", "&#xE005A;", "&#xE005B;", "&#xE005C;",
    "&#xE005D;", "&#xE005E;", "&#xE005F;", "&#xE0060;", "&#xE0061;",
    "&#xE0062;", "&#xE0063;", "&#xE0064;", "&#xE0065;", "&#xE0066;",
    "&#xE0067;", "&#xE0068;", "&#xE0069;", "&#xE006A;", "&#xE006B;",
    "&#xE006C;", "&#xE006D;", "&#xE006E;", "&#xE006F;", "&#xE0070;",
    "&#xE0071;", "&#xE0072;", "&#xE0073;", "&#xE0074;", "&#xE0075;",
    "&#xE0076;", "&#xE0077;", "&#xE0078;", "&#xE0079;", "&#xE007A;",
    "&#xE007B;", "&#xE007C;", "&#xE007D;", "&#xE007E;", "&#xE007F;",
    "&#xE0100;", "&#xE0101;", "&#xE0102;", "&#xE0103;", "&#xE0104;",
    "&#xE0105;", "&#xE0106;", "&#xE0107;", "&#xE0108;", "&#xE0109;",
    "&#xE010A;", "&#xE010B;", "&#xE010C;", "&#xE010D;", "&#xE010E;",
    "&#xE010F;", "&#xE0110;", "&#xE0111;", "&#xE0112;", "&#xE0113;",
    "&#xE0114;", "&#xE0115;", "&#xE0116;", "&#xE0117;", "&#xE0118;",
    "&#xE0119;", "&#xE011A;", "&#xE011B;", "&#xE011C;", "&#xE011D;",
    "&#xE011E;", "&#xE011F;", "&#xE0120;", "&#xE0121;", "&#xE0122;",
    "&#xE0123;", "&#xE0124;", "&#xE0125;", "&#xE0126;", "&#xE0127;",
    "&#xE0128;", "&#xE0129;", "&#xE012A;", "&#xE012B;", "&#xE012C;",
    "&#xE012D;", "&#xE012E;", "&#xE012F;", "&#xE0130;", "&#xE0131;",
    "&#xE0132;", "&#xE0133;", "&#xE0134;", "&#xE0135;", "&#xE0136;",
    "&#xE0137;", "&#xE0138;", "&#xE0139;", "&#xE013A;", "&#xE013B;",
    "&#xE013C;", "&#xE013D;", "&#xE013E;", "&#xE013F;", "&#xE0140;",
    "&#xE0141;", "&#xE0142;", "&#xE0143;", "&#xE0144;", "&#xE0145;",
    "&#xE0146;", "&#xE0147;", "&#xE0148;", "&#xE0149;", "&#xE014A;",
    "&#xE014B;", "&#xE014C;", "&#xE014D;", "&#xE014E;", "&#xE014F;",
    "&#xE0150;", "&#xE0151;", "&#xE0152;", "&#xE0153;", "&#xE0154;",
    "&#xE0155;", "&#xE0156;", "&#xE0157;", "&#xE0158;", "&#xE0159;",
    "&#xE015A;", "&#xE015B;", "&#xE015C;", "&#xE015D;", "&#xE015E;",
    "&#xE015F;", "&#xE0160;", "&#xE0161;", "&#xE0162;", "&#xE0163;",
    "&#xE0164;", "&#xE0165;", "&#xE0166;", "&#xE0167;", "&#xE0168;",
    "&#xE0169;", "&#xE016A;", "&#xE016B;", "&#xE016C;", "&#xE016D;",
    "&#xE016E;", "&#xE016F;", "&#xE0170;", "&#xE0171;", "&#xE0172;",
    "&#xE0173;", "&#xE0174;", "&#xE0175;", "&#xE0176;", "&#xE0177;",
    "&#xE0178;", "&#xE0179;", "&#xE017A;", "&#xE017B;", "&#xE017C;",
    "&#xE017D;", "&#xE017E;", "&#xE017F;", "&#xE0180;", "&#xE0181;",
    "&#xE0182;", "&#xE0183;", "&#xE0184;", "&#xE0185;", "&#xE0186;",
    "&#xE0187;", "&#xE0188;", "&#xE0189;", "&#xE018A;", "&#xE018B;",
    "&#xE018C;", "&#xE018D;", "&#xE018E;", "&#xE018F;", "&#xE0190;",
    "&#xE0191;", "&#xE0192;", "&#xE0193;", "&#xE0194;", "&#xE0195;",
    "&#xE0196;", "&#xE0197;", "&#xE0198;", "&#xE0199;", "&#xE019A;",
    "&#xE019B;", "&#xE019C;", "&#xE019D;", "&#xE019E;", "&#xE019F;",
    "&#xE01A0;", "&#xE01A1;", "&#xE01A2;", "&#xE01A3;", "&#xE01A4;",
    "&#xE01A5;", "&#xE01A6;", "&#xE01A7;", "&#xE01A8;", "&#xE01A9;",
    "&#xE01AA;", "&#xE01AB;", "&#xE01AC;", "&#xE01AD;", "&#xE01AE;",
    "&#xE01AF;", "&#xE01B0;", "&#xE01B1;", "&#xE01B2;", "&#xE01B3;",
    "&#xE01B4;", "&#xE01B5;", "&#xE01B6;", "&#xE01B7;", "&#xE01B8;",
    "&#xE01B9;", "&#xE01BA;", "&#xE01BB;", "&#xE01BC;", "&#xE01BD;",
    "&#xE01BE;", "&#xE01BF;", "&#xE01C0;", "&#xE01C1;", "&#xE01C2;",
    "&#xE01C3;", "&#xE01C4;", "&#xE01C5;", "&#xE01C6;", "&#xE01C7;",
    "&#xE01C8;", "&#xE01C9;", "&#xE01CA;", "&#xE01CB;", "&#xE01CC;",
    "&#xE01CD;", "&#xE01CE;", "&#xE01CF;", "&#xE01D0;", "&#xE01D1;",
    "&#xE01D2;", "&#xE01D3;", "&#xE01D4;", "&#xE01D5;", "&#xE01D6;",
    "&#xE01D7;", "&#xE01D8;", "&#xE01D9;", "&#xE01DA;", "&#xE01DB;",
    "&#xE01DC;", "&#xE01DD;", "&#xE01DE;", "&#xE01DF;", "&#xE01E0;",
    "&#xE01E1;", "&#xE01E2;", "&#xE01E3;", "&#xE01E4;", "&#xE01E5;",
    "&#xE01E6;", "&#xE01E7;", "&#xE01E8;", "&#xE01E9;", "&#xE01EA;",
    "&#xE01EB;", "&#xE01EC;", "&#xE01ED;", "&#xE01EE;", "&#xE01EF;"
    }

\* str.lower() of U+03A3 at position i of s: the final form U+03C2 when a
\* cased character precedes it and none follows it, case-ignorable characters
\* skipped; U+03C3 otherwise
FinalSigma(s, i) ==
    LET before == {j \in 1..(i - 1) : s[j] \notin CaseIgnorable}
        after == {j \in (i + 1)..Len(s) : s[j] \notin CaseIgnorable}
        preceded == before # {} /\ s[Max(before)] \in Cased
        followed == after # {} /\ s[Min(after)] \in Cased
    IN  IF preceded /\ ~followed THEN SmallFinalSigma ELSE SmallSigma

RECURSIVE Concat(_)
\* the concatenation of a sequence of sequences
Concat(parts) ==
    IF parts = <<>> THEN <<>> ELSE parts[1] \o Concat(Tail(parts))

\* str.lower()
Lower(s) ==
    Concat([i \in 1..Len(s) |->
              IF s[i] = CapitalSigma THEN <<FinalSigma(s, i)>>
              ELSE LowerChar(s[i])])

\* str.ljust(width)
Ljust(s, width) ==
    IF Len(s) >= width THEN s ELSE s \o Repeat(" ", width - Len(s))

Digits == Chars("0123456789")

DigitVal(c) == (CHOOSE k \in 1..10 : Digits[k] = c) - 1

RECURSIVE IntToStr(_)
\* str(n) of a natural number, as an f-string formats it
IntToStr(n) ==
    IF n < 10 THEN <<Digits[n + 1]>>
    ELSE IntToStr(n \div 10) \o <<Digits[(n % 10) + 1]>>

RECURSIVE Join(_, _)
\* sep.join(parts)
Join(sep, parts) ==
    IF parts = <<>> THEN <<>>
    ELSE IF Len(parts) = 1 THEN parts[1]
    ELSE parts[1] \o sep \o Join(sep, Tail(parts))

\* chained str.replace(c, "_") for every one-character c of olds
ReplaceChars(s, olds, new) ==
    [i \in 1..Len(s) |-> IF s[i] \in olds THEN new ELSE s[i]]

\* every sequence over S of length at most n
SeqsUpTo(S, n) == UNION {[1..k -> S] : k \in 0..n}

(***************************************************************************)
(* The parsed document.                                                    *)
(***************************************************************************)
TextName == "#text"

\* Optional values: <<>> is None, <<v>> is the value v.
None == <<>>
Some(v) == <<v>>

Elem(name, attrs, parent) ==
    [name |-> name, attrs |-> attrs, parent |-> parent, text |-> <<>>]

TextNode(s, parent) ==
    [name |-> TextName, attrs |-> {}, parent |-> parent, text |-> s]

\* tag.get(key): the attribute's value, or None
Get(node, key) ==
    LET vs == {p[2] : p \in {q \in node.attrs : q[1] = key}}
    IN  IF vs = {} THEN None ELSE Some(CHOOSE v \in vs : TRUE)

\* soup.find_all(names): the indices of the matching elements, in document order
find_all(doc, names) ==
    LET hit(i) == doc[i].name \in names
        RECURSIVE from(_)
        from(i) == IF i > Len(doc) THEN <<>>
                   ELSE IF hit(i) THEN <<i>> \o from(i + 1) ELSE from(i + 1)
    IN  from(1)

\* soup.find(name): the index of the first matching element, 0 for None
find(doc, name) ==
    LET all == find_all(doc, {name})
    IN  IF all = <<>> THEN 0 ELSE all[1]

RECURSIVE Ancestors(_, _)
\* the chain tag.parent, tag.parent.parent, ... below the root, nearest first
Ancestors(doc, i) ==
    IF doc[i].parent = 0 THEN <<>>
    ELSE <<doc[i].parent>> \o Ancestors(doc, doc[i].parent)

InSeq(x, s) == \E k \in 1..Len(s) : s[k] = x

\* tag.get_text(strip=True): every text node below the tag is stripped, the
\* empty ones are dropped, the rest are joined with no separator
get_text_strip(doc, i) ==
    LET RECURSIVE from(_)
        from(j) ==
            IF j > Len(doc) THEN <<>>
            ELSE IF /\ doc[j].name = TextName
                    /\ InSeq(i, Ancestors(doc, j))
                    /\ Strip(doc[j].text) # <<>>
                 THEN Strip(doc[j].text) \o from(j + 1)
                 ELSE from(j + 1)
    IN  from(1)

\* d2 placed after d1 in one document
Shift(d, k) ==
    [i \in 1..Len(d) |->
        [d[i] EXCEPT !.parent = IF @ = 0 THEN 0 ELSE @ + k]]

Cat(d1, d2) == d1 \o Shift(d2, Len(d1))

RECURSIVE CatAll(_)
CatAll(ds) == IF ds = <<>> THEN <<>> ELSE Cat(ds[1], CatAll(Tail(ds)))

\* d wrapped in an element: <name attrs> d </name>
Wrap(name, attrs, d) ==
    <<Elem(name, attrs, 0)>> \o
    [i \in 1..Len(d) |-> [d[i] EXCEPT !.parent = @ + 1]]

(***************************************************************************)
(* The accessibility checks.  Each returns its list of finding strings.    *)
(***************************************************************************)
MissingTitleFinding ==
    Chars("Missing <title> element. Recommendation: Add a concise, descriptive <title> for the page (e.g., ")
    \o Chars("\"Product name ") \o <<NDASH>> \o Chars(" Brand\"). [WCAG 2.4.2 Page Titled]")

EmptyTitleFinding ==
    Chars("Empty <title> element. Recommendation: Provide meaningful text that describes the page")
    \o <<RSQUO>> \o Chars("s purpose. ")
    \o Chars("[WCAG 2.4.2 Page Titled]")

ShortTitleFinding(title_text) ==
    Chars("Very short page title: \"") \o title_text
    \o Chars("\". Recommendation: Expand it to describe page content more clearly. ")
    \o Chars("[WCAG 2.4.2 Page Titled]")

ShortTitleLimit == 10

\* check_page_title with <= in place of < in the length test
check_page_title_Inclusive(doc) ==
    LET title_tag == find(doc, "title")
    IN  IF title_tag = 0 THEN <<MissingTitleFinding>>
        ELSE LET title_text == get_text_strip(doc, title_tag)
             IN  IF title_text = <<>> THEN <<EmptyTitleFinding>>
                 ELSE IF Len(title_text) <= ShortTitleLimit
                      THEN <<ShortTitleFinding(title_text)>>
                      ELSE <<>>

check_page_title(doc) ==
    LET title_tag == find(doc, "title")
    IN  IF title_tag = 0 THEN <<MissingTitleFinding>>
        ELSE LET title_text == get_text_strip(doc, title_tag)
             IN  IF title_text = <<>> THEN <<EmptyTitleFinding>>
                 ELSE IF Len(title_text) < ShortTitleLimit
                      THEN <<ShortTitleFinding(title_text)>>
                      ELSE <<>>

HeadingNames == {"h1", "h2", "h3", "h4", "h5", "h6"}

NoHeadingsFinding ==
    Chars("No heading elements (h1") \o <<NDASH>>
    \o Chars("h6) found. Recommendation: Use headings to convey structure, starting with a single ")
    \o Chars("h1 that describes the page. [WCAG 1.3.1 Info and Relationships]")

NoH1Finding ==
    Chars("No <h1> heading found. Recommendation: Add one main <h1> that describes the page")
    \o <<RSQUO>> \o Chars("s primary topic. ")
    \o Chars("[WCAG 1.3.1 Info and Relationships]")

ManyH1Finding(n) ==
    IntToStr(n)
    \o Chars(" <h1> headings found. Recommendation: Ideally use a single <h1> per page for the main title, ")
    \o Chars("and use h2") \o <<NDASH>> \o Chars("h6 for subsections. [WCAG 1.3.1 Info and Relationships]")

SkipFinding(last_level, level) ==
    Chars("Heading level skip detected (from h") \o IntToStr(last_level)
    \o Chars(" to h") \o IntToStr(level) \o Chars("). ")
    \o Chars("Recommendation: Avoid skipping heading levels; use nested levels in order (h2 after h1, then h3, etc.). ")
    \o Chars("[WCAG 2.4.6 Headings and Labels]")

\* int(h.name[1])
HeadingLevel(name) == DigitVal(SubSeq(name, 2, 2))

\* the h1-count part of check_headings
H1CountFindings(n) ==
    IF n = 0 THEN <<NoH1Finding>>
    ELSE IF n > 1 THEN <<ManyH1Finding(n)>>
    ELSE <<>>

RECURSIVE SkipScan_NoBreak(_, _, _)
\* SkipScan without the break: every skip is reported
SkipScan_NoBreak(levels, k, last_level) ==
    IF k > Len(levels) THEN <<>>
    ELSE IF last_level # 0 /\ levels[k] > last_level + 1
         THEN <<SkipFinding(last_level, levels[k])>>
              \o SkipScan_NoBreak(levels, k + 1, levels[k])
         ELSE SkipScan_NoBreak(levels, k + 1, levels[k])

RECURSIVE SkipScan(_, _, _)
\* the loop over headings: levels[k..] are still to be visited
SkipScan(levels, k, last_level) ==
    IF k > Len(levels) THEN <<>>
    ELSE IF last_level # 0 /\ levels[k] > last_level + 1
         THEN <<SkipFinding(last_level, levels[k])>>
         ELSE SkipScan(levels, k + 1, levels[k])

\* check_headings without the return after the no-headings finding
check_headings_NoReturn(doc) ==
    LET headings == find_all(doc, HeadingNames)
        h1s == find_all(doc, {"h1"})
        levels == [k \in 1..Len(headings) |-> HeadingLevel(doc[headings[k]].name)]
    IN  (IF headings = <<>> THEN <<NoHeadingsFinding>> ELSE <<>>)
        \o H1CountFindings(Len(h1s)) \o SkipScan(levels, 1, 0)

check_headings(doc) ==
    LET headings == find_all(doc, HeadingNames)
        h1s == find_all(doc, {"h1"})
        levels == [k \in 1..Len(headings) |-> HeadingLevel(doc[headings[k]].name)]
    IN  IF headings = <<>> THEN <<NoHeadingsFinding>>
        ELSE H1CountFindings(Len(h1s)) \o SkipScan(levels, 1, 0)

MissingAltFinding(n) ==
    IntToStr(n) \o Chars(" image(s) missing alt attribute. ")
    \o Chars("Recommendation: Add meaningful alt text for informative images, or alt=\"\" for decorative ones. ")
    \o Chars("[WCAG 1.1.1 Non-text Content]")

AllEmptyAltFinding ==
    Chars("All images have empty alt=\"\". Recommendation: Ensure informative images have descriptive alt text; ")
    \o Chars("use empty alt only for purely decorative images. [WCAG 1.1.1 Non-text Content]")

SomeEmptyAltFinding(n) ==
    IntToStr(n) \o Chars(" image(s) with empty alt=\"\". Recommendation: Confirm these are decorative; ")
    \o Chars("otherwise, provide descriptive alt text. [WCAG 1.1.1 Non-text Content]")

ShortAltFinding(n) ==
    IntToStr(n) \o Chars(" image(s) with very short alt text. ")
    \o Chars("Recommendation: Make alt text descriptive enough to convey the image")
    \o <<RSQUO>> \o Chars("s purpose. ")
    \o Chars("[WCAG 1.1.1 Non-text Content]")

ShortAltLimit == 3

\* the three list comprehensions of check_images_alt, as sets of indices
missing_alt(doc, images) ==
    {k \in 1..Len(images) : Get(doc[images[k]], "alt") = None}

empty_alt(doc, images) ==
    {k \in 1..Len(images) : Get(doc[images[k]], "alt") = Some(<<>>)}

short_alt(doc, images) ==
    {k \in 1..Len(images) :
        LET alt == Get(doc[images[k]], "alt")
        IN  /\ alt # None
            /\ alt # Some(<<>>)
            /\ Len(Strip(alt[1])) < ShortAltLimit}

\* EmptyAltFindings with if / if in place of if / elif
EmptyAltFindings_NoElif(n_empty, n_images) ==
    (IF n_empty # 0 /\ n_empty = n_images THEN <<AllEmptyAltFinding>> ELSE <<>>)
    \o (IF n_empty # 0 THEN <<SomeEmptyAltFinding(n_empty)>> ELSE <<>>)

\* the if / elif on empty_alt
EmptyAltFindings(n_empty, n_images) ==
    IF n_empty # 0 /\ n_empty = n_images THEN <<AllEmptyAltFinding>>
    ELSE IF n_empty # 0 THEN <<SomeEmptyAltFinding(n_empty)>>
    ELSE <<>>

check_images_alt(doc) ==
    LET images == find_all(doc, {"img"})
        n_missing == Cardinality(missing_alt(doc, images))
        n_empty == Cardinality(empty_alt(doc, images))
        n_short == Cardinality(short_alt(doc, images))
    IN  IF images = <<>> THEN <<>>
        ELSE (IF n_missing # 0 THEN <<MissingAltFinding(n_missing)>> ELSE <<>>)
             \o EmptyAltFindings(n_empty, Len(images))
             \o (IF n_short # 0 THEN <<ShortAltFinding(n_short)>> ELSE <<>>)

EmptyLinksFinding(n) ==
    IntToStr(n) \o Chars(" link(s) with no visible text. ")
    \o Chars("Recommendation: Ensure each link has meaningful text or an accessible name (e.g., aria-label). ")
    \o Chars("[WCAG 2.4.4 Link Purpose (In Context)]")

AmbiguousLinksFinding(n) ==
    IntToStr(n) \o Chars(" link(s) with ambiguous text (e.g., 'click here', 'more'). ")
    \o Chars("Recommendation: Use link text that describes the destination or action (e.g., 'Download annual report'). ")
    \o Chars("[WCAG 2.4.4 Link Purpose (In Context)]")

bad_phrases == {Chars("click here"), Chars("here"), Chars("read more"), Chars("more")}

\* the class the loop of check_links_text puts one anchor's text in
LinkClass(text) ==
    IF text = <<>> THEN "empty"
    ELSE IF text \in bad_phrases THEN "ambiguous"
    ELSE "other"

\* LinkTexts without the call of lower()
LinkTexts_CaseSensitive(doc) ==
    LET links == find_all(doc, {"a"})
    IN  [k \in 1..Len(links) |-> get_text_strip(doc, links[k])]

\* a.get_text(strip=True).lower() of every anchor
LinkTexts(doc) ==
    LET links == find_all(doc, {"a"})
    IN  [k \in 1..Len(links) |-> Lower(get_text_strip(doc, links[k]))]

check_links_text(doc) ==
    LET texts == LinkTexts(doc)
        empty_links == Cardinality({k \in 1..Len(texts) : LinkClass(texts[k]) = "empty"})
        ambiguous == Cardinality({k \in 1..Len(texts) : LinkClass(texts[k]) = "ambiguous"})
    IN  IF texts = <<>> THEN <<>>
        ELSE (IF empty_links # 0 THEN <<EmptyLinksFinding(empty_links)>> ELSE <<>>)
             \o (IF ambiguous # 0 THEN <<AmbiguousLinksFinding(ambiguous)>> ELSE <<>>)

MissingLabelsFinding(n) ==
    IntToStr(n) \o Chars(" form control(s) without an associated label. ")
    \o Chars("Recommendation: Use <label for=\"id\"> or wrap controls in <label> so screen readers announce purpose. ")
    \o Chars("[WCAG 3.3.2 Labels or Instructions]")

\* inputs + selects + textareas
FormFields(doc) ==
    find_all(doc, {"input"}) \o find_all(doc, {"select"}) \o find_all(doc, {"textarea"})

\* the keys of labels_by_for: the truthy for-values of the label elements
labels_by_for(doc) ==
    LET labels == find_all(doc, {"label"})
    IN  {Get(doc[labels[k]], "for")[1] :
            k \in {j \in 1..Len(labels) :
                     /\ Get(doc[labels[j]], "for") # None
                     /\ Get(doc[labels[j]], "for")[1] # <<>>}}

\* the first continue of the loop over fields
IsHiddenInput(node) ==
    node.name = "input" /\ Get(node, "type") = Some(Chars("hidden"))

\* HasLabel with a look at the parent only in place of the walk up the tree
HasLabel_ParentOnly(doc, f) ==
    LET field_id == Get(doc[f], "id")
        by_for == /\ field_id # None
                  /\ field_id[1] # <<>>
                  /\ field_id[1] \in labels_by_for(doc)
        wrapped == doc[f].parent # 0 /\ doc[doc[f].parent].name = "label"
    IN  by_for \/ wrapped

\* has_label after both tests of the loop body
HasLabel(doc, f) ==
    LET field_id == Get(doc[f], "id")
        by_for == /\ field_id # None
                  /\ field_id[1] # <<>>
                  /\ field_id[1] \in labels_by_for(doc)
        anc == Ancestors(doc, f)
        wrapped == \E k \in 1..Len(anc) : doc[anc[k]].name = "label"
    IN  by_for \/ wrapped

check_form_labels(doc) ==
    LET fields == FormFields(doc)
        missing_labels ==
            Cardinality({k \in 1..Len(fields) :
                            /\ ~IsHiddenInput(doc[fields[k]])
                            /\ ~HasLabel(doc, fields[k])})
    IN  IF fields = <<>> THEN <<>>
        ELSE IF missing_labels # 0 THEN <<MissingLabelsFinding(missing_labels)>>
        ELSE <<>>

(***************************************************************************)
(* build_report: the finding parser.                                       *)
(***************************************************************************)
NoIssuesText ==
    Chars("No obvious issues found in this category based on basic automated checks.")

Dash == Chars("-")

RecommendationMarker == Chars("Recommendation:")

\* ExtractGuideline with split in place of rsplit: the first '[' is taken
ExtractGuideline_FirstBracket(text) ==
    IF Contains(text, <<"[">>) /\ EndsWith(text, <<"]">>)
    THEN LET parts == SplitFirst(text, <<"[">>)
         IN  <<Strip(parts[1]), RStrip(parts[2], {"]"})>>
    ELSE <<text, Dash>>

\* first stage of the loop body: <<issue, wcag>>
ExtractGuideline(text) ==
    IF Contains(text, <<"[">>) /\ EndsWith(text, <<"]">>)
    THEN LET parts == RSplitLast(text, <<"[">>)
         IN  <<Strip(parts[1]), RStrip(parts[2], {"]"})>>
    ELSE <<text, Dash>>

\* second stage of the loop body: <<issue, recommendation>>
ExtractRecommendation(issue) ==
    IF Contains(issue, RecommendationMarker)
    THEN LET parts == SplitFirst(issue, RecommendationMarker)
         IN  <<RStrip(Strip(parts[1]), {"."}), Strip(parts[2])>>
    ELSE <<issue, Dash>>

\* the record appended for one finding string
ParseFinding(category, text) ==
    LET g == ExtractGuideline(text)
        r == ExtractRecommendation(g[1])
    IN  [Category |-> category, Issue |-> r[1],
         Recommendation |-> r[2], WCAG |-> g[2]]

CleanRecord(category) ==
    [Category |-> category, Issue |-> NoIssuesText,
     Recommendation |-> Dash, WCAG |-> Dash]

\* the records one call of add_records appends
add_records(category, fs) ==
    IF fs = <<>> THEN <<CleanRecord(category)>>
    ELSE [k \in 1..Len(fs) |-> ParseFinding(category, fs[k])]

CatTitle == Chars("Page Title")
CatHeadings == Chars("Headings")
CatImages == Chars("Images (Alt Text)")
CatLinks == Chars("Links")
CatForms == Chars("Form Labels")

\* the results of the five checks, in the order build_report runs them
RunChecks(doc) ==
    [title |-> check_page_title(doc),
     headings |-> check_headings(doc),
     images |-> check_images_alt(doc),
     links |-> check_links_text(doc),
     forms |-> check_form_labels(doc)]

\* BuildRecords with the Links check run before the Images check
BuildRecords_LinksFirst(f) ==
    add_records(CatTitle, f.title)
    \o add_records(CatHeadings, f.headings)
    \o add_records(CatLinks, f.links)
    \o add_records(CatImages, f.images)
    \o add_records(CatForms, f.forms)

\* the record list after the five add_records calls
BuildRecords(f) ==
    add_records(CatTitle, f.title)
    \o add_records(CatHeadings, f.headings)
    \o add_records(CatImages, f.images)
    \o add_records(CatLinks, f.links)
    \o add_records(CatForms, f.forms)

(***************************************************************************)
(* build_report: the table.                                                *)
(***************************************************************************)
headers == <<"Category", "Issue", "Recommendation", "WCAG">>

HeaderSet == {headers[k] : k \in 1..Len(headers)}

\* ColWidths started from 0 in place of the header labels' lengths
ColWidths_NoHeader(recs) ==
    [h \in HeaderSet |->
        Max({0} \cup {Len(recs[k][h]) : k \in 1..Len(recs)})]

\* col_widths after the loop over the records
ColWidths(recs) ==
    [h \in HeaderSet |->
        Max({Len(Chars(h))} \cup {Len(recs[k][h]) : k \in 1..Len(recs)})]

\* one cell of a row: f" {value.ljust(col_widths[h])} "
Cell(value, width) == <<" ">> \o Ljust(value, width) \o <<" ">>

\* fmt_row(row): row is None for the header row, Some(record) otherwise
fmt_row(row, widths) ==
    LET value(h) == IF row = None THEN Chars(h) ELSE row[1][h]
        cells == [k \in 1..Len(headers) |-> Cell(value(headers[k]), widths[headers[k]])]
    IN  <<"|">> \o Join(<<"|">>, cells) \o <<"|">>

RECURSIVE LineTotal(_, _)
\* total after the loop of horizontal_line has visited headers[k..]
LineTotal(k, widths) ==
    IF k > Len(headers) THEN 1
    ELSE 2 + widths[headers[k]] + 1 + LineTotal(k + 1, widths)

horizontal_line(char, widths) == Repeat(char, LineTotal(1, widths))

\* table_lines
TableLines(recs, widths) ==
    <<horizontal_line("=", widths), fmt_row(None, widths), horizontal_line("=", widths)>>
    \o Concat([k \in 1..Len(recs) |->
                 <<fmt_row(Some(recs[k]), widths), horizontal_line("-", widths)>>])

\* datetime.now().isoformat(timespec="seconds"): the clock is an input
Now == Chars("2024-01-01T00:00:00")

HeaderBarLen == 100

\* header_lines
HeaderLines(m) ==
    <<Chars("Basic Accessibility Report (Tabular)"),
      Repeat("=", HeaderBarLen),
      Chars("Source: ") \o m.source,
      Chars("Source type: ") \o Chars(m.type)>>
    \o (IF m.status_code # None
        THEN <<Chars("HTTP status: ") \o IntToStr(m.status_code[1])>>
        ELSE <<>>)
    \o <<Chars("Generated at: ") \o Now,
         <<>>,
         Chars("Note: This is a heuristic, partial check and does NOT guarantee WCAG/ADA compliance."),
         Chars("For a full audit, use professional tools and manual testing."),
         <<>>>>

\* the string build_report returns
ReportText(m, lines) ==
    Join(<<"\n">>, HeaderLines(m)) \o <<"\n">> \o Join(<<"\n">>, lines)
    \o Chars("\n\nTimestamp: ") \o Now \o <<"\n">>

(***************************************************************************)
(* The documents the environment can supply.                               *)
(***************************************************************************)
Pad(n) == Repeat(" ", n)

TitleChars == {"a", " ", "[", "]", ".", "\n", NBSP}

TitleTexts ==
    SeqsUpTo(TitleChars, MaxShortTitle)
    \cup {Pad(l) \o Repeat("a", n) \o Pad(r) :
            l \in 0..MaxPad, r \in 0..MaxPad, n \in 0..MaxTitleLen}
    \cup {Chars("My Home Page"), Chars("a [b] c]"), Chars("Hi there"),
          Chars("[]]"), Chars("a..."), Chars("x [y."), Chars("a] [b"),
          Chars("[WCAG]"), Chars("\f"), <<VT>> \o Chars("Hi there!") \o <<VT>>,
          <<NBSP>> \o Chars("A long title") \o <<"&#x2003;">>}

TitleElem(t) == Wrap("title", {}, <<TextNode(t, 0)>>)

TitleDocs ==
    {<<>>, Wrap("title", {}, <<>>)}
    \cup {TitleElem(t) : t \in TitleTexts}
    \cup {Wrap("html", {}, Wrap("head", {}, TitleElem(Chars(" Hi "))))}
    \cup {Cat(TitleElem(Chars("Hi")), TitleElem(Chars("A long enough title")))}
    \cup {Cat(TitleElem(Chars("A long enough title")), TitleElem(<<>>))}
    \cup {Wrap("title", {}, Cat(<<TextNode(Chars("abcd "), 0)>>,
                                Wrap("b", {}, <<TextNode(Chars("efghi"), 0)>>)))}

HName(level) == <<"h1", "h2", "h3", "h4", "h5", "h6">>[level]

HeadingsDoc(levels) ==
    CatAll([k \in 1..Len(levels) |->
              Wrap(HName(levels[k]), {}, <<TextNode(Chars("Section"), 0)>>)])

HeadingDocs == {HeadingsDoc(levels) : levels \in SeqsUpTo(1..6, MaxHeadings)}

AltOptions ==
    {None, Some(<<>>), Some(Chars(" ")), Some(Chars("abc")), Some(Chars(" a  ")),
     Some(<<NBSP>> \o Chars("ab") \o <<NBSP>>)}

Img(alt) ==
    <<Elem("img",
           {<<"src", Chars("x")>>}
           \cup (IF alt = None THEN {} ELSE {<<"alt", alt[1]>>}),
           0)>>

ImagesDoc(alts) == CatAll([k \in 1..Len(alts) |-> Img(alts[k])])

ImageDocs == {ImagesDoc(alts) : alts \in SeqsUpTo(AltOptions, MaxImages)}

Anchor(content) == Wrap("a", {<<"href", Chars("/x")>>}, content)

LinkOptions ==
    {<<>>,
     <<TextNode(Chars(" "), 0)>>,
     <<TextNode(Chars("Click Here"), 0)>>,
     <<TextNode(Chars("here"), 0)>>,
     <<TextNode(Chars(" More\n"), 0)>>,
     <<TextNode(Chars("READ MORE"), 0)>>,
     <<TextNode(Chars("click  here"), 0)>>,
     <<TextNode(<<NBSP>>, 0)>>,
     <<TextNode(<<"&#x39F;", "&#x394;", "&#x39F;", CapitalSigma>>, 0)>>,
     <<TextNode(Chars("\fclic") \o <<KELVIN>> \o Chars(" here") \o <<VT>>, 0)>>,
     Cat(<<TextNode(Chars("click "), 0)>>,
         Wrap("b", {}, <<TextNode(Chars("here"), 0)>>))}

LinksDoc(contents) == CatAll([k \in 1..Len(contents) |-> Anchor(contents[k])])

LinkDocs == {LinksDoc(cs) : cs \in SeqsUpTo(LinkOptions, MaxLinks)}

OptAttr(key, v) == IF v = None THEN {} ELSE {<<key, v[1]>>}

LabelElem(for) ==
    Wrap("label", OptAttr("for", for), <<TextNode(Chars("Name"), 0)>>)

LabelLists ==
    {<<>>, <<Some(Chars("a"))>>, <<Some(<<>>), None>>}

\* a form control, bare or inside <form><div> or inside <label><div>
FieldElem(kind, id, wrap) ==
    LET f == <<Elem(kind[1], OptAttr("type", kind[2]) \cup OptAttr("id", id), 0)>>
    IN  IF wrap = "none" THEN f
        ELSE IF wrap = "div" THEN Wrap("form", {}, Wrap("div", {}, f))
        ELSE Wrap("label", {}, Wrap("div", {}, f))

FieldOptions ==
    {FieldElem(<<"input", None>>, None, "none"),
     FieldElem(<<"input", Some(Chars("hidden"))>>, None, "none"),
     FieldElem(<<"input", Some(Chars("text"))>>, Some(Chars("a")), "none"),
     FieldElem(<<"input", None>>, Some(<<>>), "none"),
     FieldElem(<<"select", Some(Chars("hidden"))>>, None, "none"),
     FieldElem(<<"textarea", None>>, None, "label"),
     FieldElem(<<"input", Some(Chars("HIDDEN"))>>, None, "div"),
     FieldElem(<<"input", Some(Chars("hidden"))>>, Some(Chars("a")), "label")}

FormDoc(fors, fields) ==
    Cat(CatAll(fields), CatAll([k \in 1..Len(fors) |-> LabelElem(fors[k])]))

FormDocs ==
    {FormDoc(fors, fields) :
        fors \in LabelLists, fields \in SeqsUpTo(FieldOptions, MaxFields)}

MixedDocs ==
    {CatAll(<<t, h, i, l, f>>) :
        t \in {<<>>, TitleElem(Chars("Hi")), TitleElem(Chars("A long enough title"))},
        h \in {HeadingsDoc(<<>>), HeadingsDoc(<<1>>), HeadingsDoc(<<1, 3>>),
               HeadingsDoc(<<2, 2>>)},
        i \in {ImagesDoc(<<>>), ImagesDoc(<<None>>), ImagesDoc(<<Some(<<>>)>>),
               ImagesDoc(<<Some(<<>>), None, Some(Chars("x"))>>)},
        l \in {LinksDoc(<<>>), LinksDoc(<<<<TextNode(Chars("Click Here"), 0)>>, <<>>>>),
               LinksDoc(<<<<TextNode(Chars("Home"), 0)>>>>)},
        f \in {FormDoc(<<>>, <<>>),
               FormDoc(<<>>, <<FieldElem(<<"input", None>>, None, "none")>>),
               FormDoc(<<Some(Chars("a"))>>,
                       <<FieldElem(<<"input", None>>, Some(Chars("a")), "none")>>)}}

Docs == TitleDocs \cup HeadingDocs \cup ImageDocs \cup LinkDocs \cup FormDocs \cup MixedDocs

\* the documents of the runs that start at main
PipelineDocs ==
    {CatAll(<<t, h, i>>) :
        t \in {<<>>, TitleElem(Chars("Hi")), TitleElem(Chars("A long enough title"))},
        h \in {HeadingsDoc(<<>>), HeadingsDoc(<<1, 3>>)},
        i \in {ImagesDoc(<<>>), ImagesDoc(<<None>>)}}

(***************************************************************************)
(* fetch_html, generate_report and main.                                   *)
(***************************************************************************)
\* the lines input() can return
InputLines ==
    {<<>>, Chars("  "), <<NBSP>>, Chars(" https://h.io/a?b=1&c=2 "),
     Chars("http://h.io"), <<VT>> \o Chars("dir/page.html") \o <<NBSP>>}

\* the status codes a server can answer with
Statuses == {200, 399, 400, 401, 403, 404, 500, 599, 600}

\* the text of an exception: an input
ExcText == Chars("failure")

\* os.getcwd(): an input
Cwd == Chars("/cwd")

\* datetime.now().strftime("%Y%m%d_%H%M%S"): the clock is an input
TimestampShort == Chars("20240101_000000")

Banner ==
    <<Chars("Basic Accessibility Checker (URL or local HTML)"),
      Chars("------------------------------------------------")>>

NoInputMessage == Chars("No input provided. Exiting.")

SourceType(src) ==
    IF StartsWith(src, Chars("http://")) \/ StartsWith(src, Chars("https://"))
    THEN "url" ELSE "file"

CheckingMessage(src) ==
    IF SourceType(src) = "url"
    THEN Chars("\nChecking accessibility for URL: ") \o src \o <<"\n">>
    ELSE Chars("\nChecking accessibility for local file: ") \o src \o <<"\n">>

RestrictedMessage(status) ==
    Chars("Access restricted (HTTP ") \o IntToStr(status) \o Chars("). ")
    \o Chars("The page may require login, special headers, or is blocked for automated access.")

FailedMessage(status) ==
    Chars("Failed to fetch page (HTTP ") \o IntToStr(status) \o Chars(").")

\* StatusError with the lower end of the range test off by one: HTTP 400 passes
StatusError_Above400(status) ==
    IF status \in {401, 403} THEN Some(RestrictedMessage(status))
    ELSE IF 400 < status /\ status < 600 THEN Some(FailedMessage(status))
    ELSE None

\* the error fetch_html records for a response status, None when it accepts it
StatusError(status) ==
    IF status \in {401, 403} THEN Some(RestrictedMessage(status))
    ELSE IF 400 <= status /\ status < 600 THEN Some(FailedMessage(status))
    ELSE None

NoMeta == [type |-> "", source |-> <<>>, status_code |-> None, error |-> None]

NoRaw == [category |-> <<>>, text |-> <<>>]

NoFindings ==
    [title |-> <<>>, headings |-> <<>>, images |-> <<>>, links |-> <<>>, forms |-> <<>>]

RECURSIVE ReplaceAll(_, _, _)
\* s.replace(old, new)
ReplaceAll(s, old, new) ==
    IF ~Contains(s, old) THEN s
    ELSE LET parts == SplitFirst(s, old)
         IN  parts[1] \o new \o ReplaceAll(parts[2], old, new)

\* os.path.basename(path)
Basename(path) ==
    IF Contains(path, <<"/">>) THEN RSplitLast(path, <<"/">>)[2] ELSE path

\* safe_part of generate_report
SafePart(src) ==
    IF SourceType(src) = "url"
    THEN ReplaceChars(ReplaceAll(ReplaceAll(src, Chars("https://"), <<>>),
                                 Chars("http://"), <<>>),
                      {"/", "?", "&", "="}, "_")
    ELSE ReplaceChars(Basename(src), {"."}, "_")

\* filepath of generate_report
FilePath(src) ==
    Cwd \o <<"/">> \o Chars("a11y_report_") \o SafePart(src) \o <<"_">>
    \o TimestampShort \o Chars(".txt")

Init ==
    /\ pc = "start"
    /\ source = <<>>
    /\ meta = NoMeta
    /\ soup = None
    /\ findings = NoFindings
    /\ records = <<>>
    /\ col_widths = [h \in HeaderSet |-> 0]
    /\ table_lines = <<>>
    /\ report_text = <<>>
    /\ files = {}
    /\ printed = <<>>
    /\ fetches = 0
    /\ raw = NoRaw

\* main(), input() returns a line: the banner is printed, the line is
\* stripped; an empty line ends the run, any other line is handed to
\* generate_report
Main ==
    /\ pc = "start"
    /\ \E line \in InputLines :
        /\ source' = Strip(line)
        /\ IF Strip(line) = <<>>
           THEN /\ printed' = printed \o Banner \o <<NoInputMessage>>
                /\ pc' = "done"
           ELSE /\ printed' = printed \o Banner
                /\ pc' = "fetch"
    /\ UNCHANGED <<meta, soup, findings, records, col_widths, table_lines,
                   report_text, files, fetches, raw>>

\* main(), input() meets the end of its input: it raises EOFError after the
\* banner was printed; nothing catches it, so it leaves main
MainEOF ==
    /\ pc = "start"
    /\ printed' = printed \o Banner
    /\ pc' = "crashed"
    /\ UNCHANGED <<source, meta, soup, findings, records, col_widths,
                   table_lines, report_text, files, fetches, raw>>

\* fetch_html(source), URL case, requests.get returns a response; followed
\* by the test of generate_report on soup
FetchUrlResponse ==
    /\ pc = "fetch"
    /\ SourceType(source) = "url"
    /\ \E status \in Statuses, doc \in PipelineDocs :
        LET err == StatusError(status)
        IN  /\ meta' = [type |-> "url", source |-> source,
                        status_code |-> Some(status), error |-> err]
            /\ IF err # None
               THEN /\ soup' = None
                    /\ printed' = printed \o <<CheckingMessage(source), err[1]>>
                    /\ pc' = "done"
               ELSE /\ soup' = Some(doc)
                    /\ printed' = printed \o <<CheckingMessage(source)>>
                    /\ pc' = "build"
    /\ fetches' = fetches + 1
    /\ UNCHANGED <<source, findings, records, col_widths, table_lines,
                   report_text, files, raw>>

\* fetch_html(source), URL case, requests.get raises RequestException
FetchUrlException ==
    /\ pc = "fetch"
    /\ SourceType(source) = "url"
    /\ meta' = [type |-> "url", source |-> source, status_code |-> None,
                error |-> Some(Chars("Error fetching URL: ") \o ExcText)]
    /\ soup' = None
    /\ printed' = printed \o <<CheckingMessage(source),
                               Chars("Error fetching URL: ") \o ExcText>>
    /\ pc' = "done"
    /\ fetches' = fetches + 1
    /\ UNCHANGED <<source, findings, records, col_widths, table_lines,
                   report_text, files, raw>>

\* fetch_html(source), local file case, the file is read and parsed
FetchFile ==
    /\ pc = "fetch"
    /\ SourceType(source) = "file"
    /\ \E doc \in PipelineDocs : soup' = Some(doc)
    /\ meta' = [type |-> "file", source |-> source, status_code |-> None,
                error |-> None]
    /\ printed' = printed \o <<CheckingMessage(source)>>
    /\ pc' = "build"
    /\ fetches' = fetches + 1
    /\ UNCHANGED <<source, findings, records, col_widths, table_lines,
                   report_text, files, raw>>

\* fetch_html(source), local file case, open or read raises OSError
FetchFileError ==
    /\ pc = "fetch"
    /\ SourceType(source) = "file"
    /\ meta' = [type |-> "file", source |-> source, status_code |-> None,
                error |-> Some(Chars("Error opening local file: ") \o ExcText)]
    /\ soup' = None
    /\ printed' = printed \o <<CheckingMessage(source),
                               Chars("Error opening local file: ") \o ExcText>>
    /\ pc' = "done"
    /\ fetches' = fetches + 1
    /\ UNCHANGED <<source, findings, records, col_widths, table_lines,
                   report_text, files, raw>>

\* fetch_html(source), URL case, an exception that is no RequestException:
\* BeautifulSoup(html, "html.parser") stands outside the try and the parser
\* can reject the markup; the exception leaves fetch_html, generate_report
\* and main, and meta is not returned
FetchUrlCrash ==
    /\ pc = "fetch"
    /\ SourceType(source) = "url"
    /\ printed' = printed \o <<CheckingMessage(source)>>
    /\ pc' = "crashed"
    /\ fetches' = fetches + 1
    /\ UNCHANGED <<source, meta, soup, findings, records, col_widths,
                   table_lines, report_text, files, raw>>

\* fetch_html(source), local file case, f.read() raises UnicodeDecodeError
\* or the parser rejects the markup: neither is an OSError, so the exception
\* leaves fetch_html, generate_report and main
FetchFileCrash ==
    /\ pc = "fetch"
    /\ SourceType(source) = "file"
    /\ printed' = printed \o <<CheckingMessage(source)>>
    /\ pc' = "crashed"
    /\ fetches' = fetches + 1
    /\ UNCHANGED <<source, meta, soup, findings, records, col_widths,
                   table_lines, report_text, files, raw>>

\* report_text = build_report(soup, meta)
BuildReport ==
    /\ pc = "build"
    /\ LET f == RunChecks(soup[1])
           recs == BuildRecords(f)
           widths == ColWidths(recs)
           lines == TableLines(recs, widths)
       IN  /\ findings' = f
           /\ records' = recs
           /\ col_widths' = widths
           /\ table_lines' = lines
           /\ report_text' = ReportText(meta, lines)
    /\ pc' = "write"
    /\ UNCHANGED <<source, meta, soup, files, printed, fetches, raw>>

\* The code point of a character.
AsciiLow ==
    Chars(" !\"#$%&'()*+,-./0123456789:;<=>?@ABCDEFGHIJKLMNOPQRSTUVWXYZ[\\]^_")
AsciiHigh == Chars("abcdefghijklmnopqrstuvwxyz{|}~")
HexDigits == Chars("0123456789ABCDEF")

RECURSIVE HexValue(_)
HexValue(h) ==
    IF Len(h) = 0 THEN 0
    ELSE 16 * HexValue(SubSeq(h, 1, Len(h) - 1))
         + (CHOOSE d \in 0..15 : HexDigits[d + 1] = SubSeq(h, Len(h), Len(h)))

CodePoint(c) ==
    IF Len(c) > 1 THEN HexValue(SubSeq(c, 4, Len(c) - 1))
    ELSE IF c = "\t" THEN 9
    ELSE IF c = "\n" THEN 10
    ELSE IF c = "\f" THEN 12
    ELSE IF c = "\r" THEN 13
    ELSE IF \E i \in 1..Len(AsciiLow) : AsciiLow[i] = c
         THEN 31 + (CHOOSE i \in 1..Len(AsciiLow) : AsciiLow[i] = c)
    ELSE 96 + (CHOOSE i \in 1..Len(AsciiHigh) : AsciiHigh[i] = c)

\* a lone surrogate: encoding="utf-8" cannot write it
IsSurrogate(c) == Len(c) > 1 /\ CodePoint(c) \in 55296..57343

\* str.encode("utf-8") raises on no character of s
Encodable(s) == {i \in 1..Len(s) : IsSurrogate(s[i])} = {}

\* the bytes encoding="utf-8" writes for one character
Utf8Char(c) ==
    LET cp == CodePoint(c)
    IN  IF cp < 128 THEN <<cp>>
        ELSE IF cp < 2048 THEN <<192 + (cp \div 64), 128 + (cp % 64)>>
        ELSE IF cp < 65536
             THEN <<224 + (cp \div 4096), 128 + ((cp \div 64) % 64),
                    128 + (cp % 64)>>
        ELSE <<240 + (cp \div 262144), 128 + ((cp \div 4096) % 64),
               128 + ((cp \div 64) % 64), 128 + (cp % 64)>>

\* A file: its path and the bytes it holds, which are a prefix of the UTF-8
\* encoding of a text; text is the characters whose bytes are all there, tail
\* the bytes that follow them, the leading bytes of a character cut short.
File(path, text, tail) == [path |-> path, text |-> text, tail |-> tail]

\* where the bytes of s can be cut short: after k whole characters and j
\* bytes, not all, of the next one
Cuts(s) ==
    UNION {{<<k, j>> : j \in 0..(Len(Utf8Char(s[k + 1])) - 1)} :
             k \in 0..(Len(s) - 1)}

\* the rest of generate_report, the write succeeds: the encoded report is
\* written to its file
WriteReport ==
    /\ pc = "write"
    /\ Encodable(report_text)
    /\ files' = files \cup {File(FilePath(source), report_text, <<>>)}
    /\ printed' = printed \o <<Chars("\nReport saved to: ") \o FilePath(source)>>
    /\ pc' = "done"
    /\ UNCHANGED <<source, meta, soup, findings, records, col_widths,
                   table_lines, report_text, fetches, raw>>

\* the rest of generate_report, open(filepath, "w") raises (the path is a
\* directory, the name is too long, ...): no file is written and nothing is
\* printed; the exception leaves generate_report and main
WriteReportOpenError ==
    /\ pc = "write"
    /\ pc' = "crashed"
    /\ UNCHANGED <<source, meta, soup, findings, records, col_widths,
                   table_lines, report_text, files, printed, fetches, raw>>

\* the rest of generate_report, open has created the file and f.write or the
\* closing flush raises; nothing is printed and the exception leaves
\* generate_report and main.  A text that cannot be encoded leaves the file
\* empty.  Otherwise (the disk is full, the file size limit is met) the file
\* holds the bytes that were written before the failure: any proper prefix
\* of the encoded report, which may end inside a character
WriteReportWriteError ==
    /\ pc = "write"
    /\ IF ~Encodable(report_text)
       THEN files' = files \cup {File(FilePath(source), <<>>, <<>>)}
       ELSE \E cut \in Cuts(report_text) :
              files' = files \cup
                  {File(FilePath(source), SubSeq(report_text, 1, cut[1]),
                        SubSeq(Utf8Char(report_text[cut[1] + 1]), 1, cut[2]))}
    /\ pc' = "crashed"
    /\ UNCHANGED <<source, meta, soup, findings, records, col_widths,
                   table_lines, report_text, printed, fetches, raw>>

Next ==
    \/ Main
    \/ MainEOF
    \/ FetchUrlResponse
    \/ FetchUrlException
    \/ FetchUrlCrash
    \/ FetchFile
    \/ FetchFileError
    \/ FetchFileCrash
    \/ BuildReport
    \/ WriteReport
    \/ WriteReportOpenError
    \/ WriteReportWriteError

Spec == Init /\ [][Next]_vars

(***************************************************************************)
(* The checks and the report builder over every document of Docs: the      *)
(* state of generate_report("page.html") when fetch_html has returned a    *)
(* document, and the call of build_report.                                 *)
(***************************************************************************)
ChecksInit ==
    /\ pc = "build"
    /\ source = Chars("page.html")
    /\ meta = [type |-> "file", source |-> Chars("page.html"),
               status_code |-> None, error |-> None]
    /\ soup \in {Some(doc) : doc \in Docs}
    /\ findings = NoFindings
    /\ records = <<>>
    /\ col_widths = [h \in HeaderSet |-> 0]
    /\ table_lines = <<>>
    /\ report_text = <<>>
    /\ files = {}
    /\ printed = Banner \o <<CheckingMessage(Chars("page.html"))>>
    /\ fetches = 1
    /\ raw = NoRaw

ChecksNext == BuildReport

ChecksSpec == ChecksInit /\ [][ChecksNext]_vars

(***************************************************************************)
(* The finding parser (the loop body of add_records) over the strings      *)
(* build_report hands it: every finding string the five checks return on   *)
(* the documents of Docs, with the category build_report passes along.      *)
(***************************************************************************)
Range(s) == {s[k] : k \in 1..Len(s)}

\* what build_report passes to add_records for the documents of Docs
CheckFindings ==
    UNION {LET f == RunChecks(doc)
           IN  {[category |-> CatTitle, text |-> t] : t \in Range(f.title)}
               \cup {[category |-> CatHeadings, text |-> t] : t \in Range(f.headings)}
               \cup {[category |-> CatImages, text |-> t] : t \in Range(f.images)}
               \cup {[category |-> CatLinks, text |-> t] : t \in Range(f.links)}
               \cup {[category |-> CatForms, text |-> t] : t \in Range(f.forms)}
           : doc \in Docs}

ParserInit ==
    /\ pc = "parse"
    /\ raw \in CheckFindings
    /\ source = <<>>
    /\ meta = NoMeta
    /\ soup = None
    /\ findings = NoFindings
    /\ records = <<>>
    /\ col_widths = [h \in HeaderSet |-> 0]
    /\ table_lines = <<>>
    /\ report_text = <<>>
    /\ files = {}
    /\ printed = <<>>
    /\ fetches = 0

\* add_records(category, [text])
ParseRaw ==
    /\ pc = "parse"
    /\ records' = add_records(raw.category, <<raw.text>>)
    /\ pc' = "parsed"
    /\ UNCHANGED <<source, meta, soup, findings, col_widths, table_lines,
                   report_text, files, printed, fetches, raw>>

ParserNext == ParseRaw

ParserSpec == ParserInit /\ [][ParserNext]_vars

(***************************************************************************)
(* Properties.                                                             *)
(***************************************************************************)
\* build_report has returned
Built == pc \in {"write", "done"} /\ soup # None

\* the document build_report ran on
Doc == soup[1]

\* no line was read: input() met the end of its input
NoLine == pc = "crashed" /\ fetches = 0

\* the run has failed: an empty input line, or fetch_html recorded an error
Failed == (pc \notin {"start", "crashed"} /\ source = <<>>) \/ meta.error # None

\* the status codes the claim lists as failures
FailureStatus(status) == status \in {401, 403} \/ (400 <= status /\ status <= 599)

\* p is s cut short
IsProperPrefix(p, s) == Len(p) < Len(s) /\ p = SubSeq(s, 1, Len(p))

\* the file holds the encoding of s, all of it
HoldsAll(f, s) == f.text = s /\ f.tail = <<>>

\* the file holds a part of the encoding of s: some of its characters and
\* some, not all, of the bytes of the next one
HoldsPart(f, s) ==
    /\ IsProperPrefix(f.text, s)
    /\ IsProperPrefix(f.tail, Utf8Char(s[Len(f.text) + 1]))

\* an output file exists only after a document was obtained and a report was
\* built from it: it holds the report, or, when the write itself failed, a
\* part of it; the listed failures end the run with the error message
\* printed last, build_report not reached and no file
NoReportOnFailure ==
    /\ Cardinality(files) <= 1
    /\ \A f \in files :
        /\ soup # None /\ meta.error = None
        /\ Len(records) >= 5
        /\ report_text = ReportText(meta, table_lines)
        /\ \/ pc = "done" /\ HoldsAll(f, report_text)
           \/ pc = "crashed" /\ HoldsPart(f, report_text)
    /\ (meta.status_code # None /\ FailureStatus(meta.status_code[1])) => Failed
    /\ (pc \in {"build", "write", "done"} /\ soup = None) => Failed
    /\ (pc = "crashed" /\ soup = None) => (records = <<>> /\ files = {})
    /\ (pc = "crashed" /\ soup # None) => (meta.error = None /\ Len(records) >= 5)
    /\ Failed =>
        /\ pc = "done"
        /\ soup = None
        /\ records = <<>> /\ findings = NoFindings /\ report_text = <<>>
        /\ files = {}
        /\ printed # <<>>
        /\ IF source = <<>> THEN printed[Len(printed)] = NoInputMessage
           ELSE printed[Len(printed)] = meta.error[1]

\* C1 as stated: an output file is written only after a document was
\* obtained and a report was built from it; for empty input, HTTP 401/403,
\* any other status in 400..599, a network exception or a file open failure
\* the run ends with an error message printed, build_report is not reached
\* and no file is written; every run that has ended made exactly one fetch
\* attempt.
C1_ExactlyOneFetch ==
    /\ NoReportOnFailure
    /\ fetches <= 1
    /\ pc = "done" => fetches = 1

\* C1, amended: an output file is written only after a document was obtained
\* and a report was built from it; for empty input, HTTP 401/403, any other
\* status in 400..599, a network exception or a file open failure the run
\* ends with an error message printed, build_report is not reached and no
\* file is written; fetch_html is attempted at most once: exactly once in
\* every run that read a non-empty input line, and not at all for an empty
\* input line or when no line could be read.
C1_NoReportOnFailure ==
    /\ NoReportOnFailure
    /\ fetches <= 1
    /\ (pc \in {"build", "write", "done", "crashed"} /\ source # <<>>) => fetches = 1
    /\ (pc = "fetch" \/ source = <<>>) => fetches = 0
    /\ NoLine => (source = <<>> /\ printed = Banner)

C1_Witness ==
    /\ pc = "done"
    /\ meta.status_code = Some(403)
    /\ StartsWith(printed[Len(printed)], Chars("Access restricted (HTTP 403)"))
    /\ files = {}
    /\ fetches = 1

Categories == <<CatTitle, CatHeadings, CatImages, CatLinks, CatForms>>

FindingLists ==
    <<findings.title, findings.headings, findings.images, findings.links,
      findings.forms>>

\* the number of rows category k contributes
RowCount(k) == IF FindingLists[k] = <<>> THEN 1 ELSE Len(FindingLists[k])

RECURSIVE RowOffset(_)
\* the number of rows before those of category k
RowOffset(k) == IF k = 1 THEN 0 ELSE RowOffset(k - 1) + RowCount(k - 1)

IsCleanRow(r) ==
    r.Issue = NoIssuesText /\ r.Recommendation = Dash /\ r.WCAG = Dash

\* C2: the record list holds the five categories in the order Page Title,
\* Headings, Images, Links, Form Labels, each category's rows contiguous: one
\* synthetic clean row for a check without findings, else one row per finding
\* in the check's order and no synthetic row; the document without title,
\* headings, images, links and fields gives exactly five rows.
C2_RecordLayout ==
    Built =>
        /\ Len(records) = RowOffset(5) + RowCount(5)
        /\ \A k \in 1..5 :
            \A j \in 1..RowCount(k) :
                LET r == records[RowOffset(k) + j]
                IN  /\ r.Category = Categories[k]
                    /\ IF FindingLists[k] = <<>> THEN IsCleanRow(r)
                       ELSE /\ StartsWith(FindingLists[k][j], r.Issue)
                            /\ r.Issue # <<>>
                            /\ ~IsCleanRow(r)
                            /\ r.WCAG # Dash
        /\ Doc = <<>> =>
            /\ Len(records) = 5
            /\ records[1].Issue = Chars("Missing <title> element")
            /\ StartsWith(records[2].Issue, Chars("No heading elements (h1"))
            /\ \A k \in 3..5 : IsCleanRow(records[k])
            /\ ~IsCleanRow(records[1]) /\ ~IsCleanRow(records[2])

C2_Witness ==
    /\ Built
    /\ Doc = <<>>
    /\ Len(records) = 5
    /\ IsCleanRow(records[5])

PageTitledTag == Chars("[WCAG 2.4.2 Page Titled]")

\* the first title element's text, trimmed
TitleText == get_text_strip(Doc, find(Doc, "title"))

\* C3: check_page_title returns at most one finding, always ending in the
\* WCAG 2.4.2 Page Titled tag: one when there is no title element, one when
\* the first title's trimmed text is empty, one containing the title text
\* when its trimmed length is 1..9, none when it is 10 or more.
C3_TitleFindings ==
    Built =>
        /\ Len(findings.title) <= 1
        /\ \A k \in 1..Len(findings.title) : EndsWith(findings.title[k], PageTitledTag)
        /\ IF find(Doc, "title") = 0
           THEN /\ Len(findings.title) = 1
                /\ StartsWith(findings.title[1], Chars("Missing <title> element."))
           ELSE IF Len(TitleText) = 0
           THEN /\ Len(findings.title) = 1
                /\ StartsWith(findings.title[1], Chars("Empty <title> element."))
           ELSE IF Len(TitleText) <= 9
           THEN /\ Len(findings.title) = 1
                /\ StartsWith(findings.title[1],
                              Chars("Very short page title: \"") \o TitleText \o Chars("\"."))
           ELSE findings.title = <<>>

C3_Witness ==
    /\ Built
    /\ find(Doc, "title") # 0
    /\ Len(TitleText) = 9
    /\ Len(findings.title) = 1

\* the levels of the document's headings, in document order
Levels ==
    LET hs == SelectSeq(Doc, LAMBDA n : n.name \in HeadingNames)
    IN  [k \in 1..Len(hs) |-> CHOOSE l \in 1..6 : HName(l) = hs[k].name]

IsSkipFinding(f) == StartsWith(f, Chars("Heading level skip detected"))

IsH1CountFinding(f) ==
    \/ StartsWith(f, Chars("No <h1> heading found"))
    \/ Contains(f, Chars(" <h1> headings found."))

IsNoHeadingsFinding(f) == StartsWith(f, Chars("No heading elements (h1"))

\* C4: for a document without heading elements check_headings returns
\* exactly one finding, the no-heading finding, and neither an h1-count
\* finding nor a level-skip finding.
C4_NoHeadings ==
    (Built /\ Levels = <<>>) =>
        /\ Len(findings.headings) = 1
        /\ IsNoHeadingsFinding(findings.headings[1])
        /\ ~IsH1CountFinding(findings.headings[1])
        /\ ~IsSkipFinding(findings.headings[1])

C4_Witness ==
    /\ Built
    /\ Levels = <<>>
    /\ find_all(Doc, {"img"}) # <<>>
    /\ Len(findings.headings) = 1

\* the positions of the headings that skip a level after their predecessor
Skips == {k \in 2..Len(Levels) : Levels[k] > Levels[k - 1] + 1}

SkipFindings == SelectSeq(findings.headings, IsSkipFinding)

H1CountFindingsEmitted == SelectSeq(findings.headings, IsH1CountFinding)

H1Count == Cardinality({k \in 1..Len(Levels) : Levels[k] = 1})

SkipPhrase(from, to) ==
    Chars("(from h") \o IntToStr(from) \o Chars(" to h") \o IntToStr(to) \o Chars(")")

\* C5: for a non-empty heading sequence check_headings emits at most one
\* level-skip finding, iff some heading other than the first has a level
\* above its predecessor's level + 1, naming the first such pair; the first
\* heading and a decrease never cause one; an h1-count finding is emitted
\* iff the number of h1 elements is not 1; headings h1, h3 give exactly one
\* finding, the skip from h1 to h3.
C5_HeadingSkips ==
    (Built /\ Levels # <<>>) =>
        /\ Len(SkipFindings) <= 1
        /\ Len(SkipFindings) = 1 <=> Skips # {}
        /\ Skips # {} =>
            LET k == Min(Skips)
            IN  Contains(SkipFindings[1], SkipPhrase(Levels[k - 1], Levels[k]))
        /\ Len(H1CountFindingsEmitted) = (IF H1Count # 1 THEN 1 ELSE 0)
        /\ Len(findings.headings) = Len(SkipFindings) + Len(H1CountFindingsEmitted)
        /\ Levels = <<1, 3>> =>
            /\ Len(findings.headings) = 1
            /\ IsSkipFinding(findings.headings[1])
            /\ Contains(findings.headings[1], SkipPhrase(1, 3))

C5_Witness ==
    /\ Built
    /\ Levels = <<1, 3, 5>>
    /\ Len(findings.headings) = 1
    /\ Contains(findings.headings[1], SkipPhrase(1, 3))

\* the alt attribute of every image, in document order
Alts ==
    LET imgs == SelectSeq(Doc, LAMBDA n : n.name = "img")
    IN  [k \in 1..Len(imgs) |-> Get(imgs[k], "alt")]

AltMissing == {k \in 1..Len(Alts) : Alts[k] = None}

AltEmpty == {k \in 1..Len(Alts) : Alts[k] = Some(<<>>)}

ImageFindingSet == Range(findings.images)

IsSomeEmptyAlt(f) == Contains(f, Chars(" image(s) with empty alt=\"\"."))

IsAllEmptyAlt(f) == StartsWith(f, Chars("All images have empty alt=\"\"."))

\* C6: check_images_alt never emits both the all-images-empty finding and
\* the counted empty-alt finding; when every one of N >= 1 images has
\* alt="" only the all-images finding is emitted; when some but not all
\* have alt="" the counted finding is emitted and the all-images one is
\* not; the missing, empty and short groups are pairwise disjoint; a single
\* image without alt gives exactly one finding, citing 1 missing-alt image.
C6_ImageFindings ==
    Built =>
        LET imgs == find_all(Doc, {"img"})
            all == \E f \in ImageFindingSet : IsAllEmptyAlt(f)
            some == \E f \in ImageFindingSet : IsSomeEmptyAlt(f)
            n == Cardinality(AltEmpty)
        IN  /\ ~(all /\ some)
            /\ (Len(Alts) >= 1 /\ n = Len(Alts)) =>
                /\ Len(findings.images) = 1
                /\ IsAllEmptyAlt(findings.images[1])
            /\ (n >= 1 /\ n < Len(Alts)) =>
                /\ ~all
                /\ Cardinality({k \in 1..Len(findings.images) :
                                  IsSomeEmptyAlt(findings.images[k])}) = 1
                /\ \E f \in ImageFindingSet :
                      StartsWith(f, IntToStr(n) \o Chars(" image(s) with empty alt"))
            /\ n = 0 => ~all /\ ~some
            /\ missing_alt(Doc, imgs) \cap empty_alt(Doc, imgs) = {}
            /\ missing_alt(Doc, imgs) \cap short_alt(Doc, imgs) = {}
            /\ empty_alt(Doc, imgs) \cap short_alt(Doc, imgs) = {}
            /\ missing_alt(Doc, imgs) = AltMissing
            /\ empty_alt(Doc, imgs) = AltEmpty
            /\ Alts = <<None>> =>
                /\ Len(findings.images) = 1
                /\ StartsWith(findings.images[1],
                              Chars("1 image(s) missing alt attribute."))

C6_Witness ==
    /\ Built
    /\ Len(Alts) = 2
    /\ Cardinality(AltEmpty) = 2
    /\ findings.images = <<AllEmptyAltFinding>>

AmbiguousPhrases ==
    {Chars("click here"), Chars("here"), Chars("read more"), Chars("more")}

\* the trimmed, lower-cased text of every anchor, in document order
AnchorTexts ==
    LET as == find_all(Doc, {"a"})
    IN  [k \in 1..Len(as) |-> Lower(get_text_strip(Doc, as[k]))]

EmptyAnchors == {k \in 1..Len(AnchorTexts) : AnchorTexts[k] = <<>>}

AmbiguousAnchors == {k \in 1..Len(AnchorTexts) : AnchorTexts[k] \in AmbiguousPhrases}

ClickHereAndEmpty ==
    LinksDoc(<<<<TextNode(Chars("Click Here"), 0)>>, <<>>>>)

\* C7: check_links_text counts every anchor in at most one of the classes
\* empty text and ambiguous text, so the two counts add up to at most the
\* number of anchors; it emits one finding with the empty count iff that
\* count is positive and one with the ambiguous count iff that count is
\* positive, nothing without anchors; matching ignores case: anchors
\* 'Click Here' and an empty one give exactly two findings, 1 ambiguous
\* link and 1 link without text.
C7_LinkFindings ==
    Built =>
        LET ne == Cardinality(EmptyAnchors)
            na == Cardinality(AmbiguousAnchors)
            emptyFs == {k \in 1..Len(findings.links) :
                          Contains(findings.links[k], Chars(" link(s) with no visible text."))}
            ambFs == {k \in 1..Len(findings.links) :
                        Contains(findings.links[k], Chars(" link(s) with ambiguous text"))}
        IN  /\ EmptyAnchors \cap AmbiguousAnchors = {}
            /\ ne + na <= Len(AnchorTexts)
            /\ Cardinality(emptyFs) = (IF ne > 0 THEN 1 ELSE 0)
            /\ Cardinality(ambFs) = (IF na > 0 THEN 1 ELSE 0)
            /\ \A k \in emptyFs :
                  StartsWith(findings.links[k], IntToStr(ne) \o Chars(" link(s) with no"))
            /\ \A k \in ambFs :
                  StartsWith(findings.links[k], IntToStr(na) \o Chars(" link(s) with ambiguous"))
            /\ Len(findings.links) = Cardinality(emptyFs) + Cardinality(ambFs)
            /\ AnchorTexts = <<>> => findings.links = <<>>
            /\ Doc = ClickHereAndEmpty =>
                /\ Len(findings.links) = 2
                /\ \E k \in 1..2 :
                      StartsWith(findings.links[k], Chars("1 link(s) with ambiguous text"))
                /\ \E k \in 1..2 :
                      StartsWith(findings.links[k], Chars("1 link(s) with no visible text"))

C7_Witness ==
    /\ Built
    /\ Doc = ClickHereAndEmpty
    /\ Len(findings.links) = 2

\* the width the claim gives column h
ClaimedWidth(h) ==
    Max({Len(Chars(h))} \cup {Len(records[k][h]) : k \in 1..Len(records)})

\* the length the claim gives every line of the table
ClaimedLineLen ==
    (col_widths["Category"] + 3) + (col_widths["Issue"] + 3)
    + (col_widths["Recommendation"] + 3) + (col_widths["WCAG"] + 3) + 1

RECURSIVE CellStart(_)
\* the position of the '|' that opens column c of a row
CellStart(c) ==
    IF c = 1 THEN 1 ELSE CellStart(c - 1) + col_widths[headers[c - 1]] + 3

\* the row of table_lines at position n shows the values v, every cell being
\* a space, the value, padding spaces up to the column width, a space
RowShows(n, v) ==
    LET line == table_lines[n]
    IN  /\ Len(line) = ClaimedLineLen
        /\ line[Len(line)] = "|"
        /\ \A c \in 1..4 :
            LET w == col_widths[headers[c]]
                cell == SubSeq(line, CellStart(c) + 1, CellStart(c) + w + 2)
            IN  /\ line[CellStart(c)] = "|"
                /\ Len(cell) = w + 2
                /\ cell = <<" ">> \o v[c] \o Repeat(" ", w - Len(v[c])) \o <<" ">>

IsBorder(n, char) ==
    /\ Len(table_lines[n]) = ClaimedLineLen
    /\ \A i \in 1..Len(table_lines[n]) : table_lines[n][i] = char

\* C8: every column's width is the maximum length among its header label and
\* the records' values in that column; every rendered cell, in the header row
\* and in every record row, has width column width + 2; every border line has
\* length sum of (column width + 3) plus 1; so all rows and borders of the
\* table have the same length.
C8_TableWidths ==
    Built =>
        /\ \A h \in HeaderSet : col_widths[h] = ClaimedWidth(h)
        /\ Len(table_lines) = 3 + 2 * Len(records)
        /\ IsBorder(1, "=")
        /\ RowShows(2, [c \in 1..4 |-> Chars(headers[c])])
        /\ IsBorder(3, "=")
        /\ \A k \in 1..Len(records) :
            /\ RowShows(2 + 2 * k, [c \in 1..4 |-> records[k][headers[c]]])
            /\ IsBorder(3 + 2 * k, "-")
        /\ \A n \in 1..Len(table_lines) : Len(table_lines[n]) = Len(table_lines[1])

C8_Witness ==
    /\ Built
    /\ \E k \in 1..Len(records) : IsCleanRow(records[k])
    /\ \E k \in 1..Len(records) :
          ~IsCleanRow(records[k]) /\ Len(records[k].Issue) < col_widths["Issue"]
    /\ Len(table_lines[2]) = ClaimedLineLen

FieldNames == {"input", "select", "textarea"}

\* the keys of the map built from the labels' for attributes
ForKeys ==
    {v \in {Get(Doc[i], "for") : i \in {j \in 1..Len(Doc) : Doc[j].name = "label"}} :
        v # None /\ v # Some(<<>>)}

InsideLabel(i) ==
    \E k \in 1..Len(Ancestors(Doc, i)) : Doc[Ancestors(Doc, i)[k]].name = "label"

\* the fields the claim counts as unlabeled
Unlabeled ==
    {i \in 1..Len(Doc) :
        /\ Doc[i].name \in FieldNames
        /\ ~(Doc[i].name = "input" /\ Get(Doc[i], "type") = Some(Chars("hidden")))
        /\ Get(Doc[i], "id") \notin ForKeys
        /\ ~InsideLabel(i)}

\* C9: check_form_labels counts as unlabeled exactly the input, select and
\* textarea fields that are not an input of type "hidden", whose id is not a
\* key of the map built from the labels' for attributes and that have no
\* label among their ancestors; one finding carrying that count is emitted
\* iff the count is positive.
C9_FormLabels ==
    Built =>
        LET n == Cardinality(Unlabeled)
        IN  IF n > 0
            THEN /\ Len(findings.forms) = 1
                 /\ StartsWith(findings.forms[1],
                               IntToStr(n) \o Chars(" form control(s) without an associated label."))
            ELSE findings.forms = <<>>

C9_Witness ==
    /\ Built
    /\ Cardinality(Unlabeled) = 1
    /\ \E i \in 1..Len(Doc) :
          /\ Doc[i].name = "input"
          /\ Get(Doc[i], "id") \in ForKeys
          /\ ~InsideLabel(i)
    /\ Len(findings.forms) = 1

\* the finding string handed to the parser and the record it produced
Text == raw.text

Parsed == records[1]

\* the string contains '[' and ends with ']'
HasTag ==
    /\ \E i \in 1..Len(Text) : Text[i] = "["
    /\ Len(Text) >= 1 /\ Text[Len(Text)] = "]"

LastOpen == Max({i \in 1..Len(Text) : Text[i] = "["})

\* the text after the last '[' without the one ']' that ends the string
GuidelineSingle == IF HasTag THEN SubSeq(Text, LastOpen + 1, Len(Text) - 1) ELSE Dash

Remaining == IF HasTag THEN Strip(SubSeq(Text, 1, LastOpen - 1)) ELSE Text

HasMarker == Occurrences(Remaining, RecommendationMarker) # {}

FirstMarker == Min(Occurrences(Remaining, RecommendationMarker))

\* s without the period that ends it
WithoutTrailingPeriod(s) ==
    IF Len(s) >= 1 /\ s[Len(s)] = "." THEN SubSeq(s, 1, Len(s) - 1) ELSE s

ExpectedIssue ==
    IF HasMarker
    THEN WithoutTrailingPeriod(Strip(SubSeq(Remaining, 1, FirstMarker - 1)))
    ELSE Remaining

ExpectedRecommendation ==
    IF HasMarker
    THEN Strip(SubSeq(Remaining, FirstMarker + Len(RecommendationMarker), Len(Remaining)))
    ELSE Dash

\* the WCAG tags of the check behind a category
TagsOf(category) ==
    IF category = CatTitle THEN {Chars("WCAG 2.4.2 Page Titled")}
    ELSE IF category = CatHeadings
         THEN {Chars("WCAG 1.3.1 Info and Relationships"),
               Chars("WCAG 2.4.6 Headings and Labels")}
    ELSE IF category = CatImages THEN {Chars("WCAG 1.1.1 Non-text Content")}
    ELSE IF category = CatLinks THEN {Chars("WCAG 2.4.4 Link Purpose (In Context)")}
    ELSE {Chars("WCAG 3.3.2 Labels or Instructions")}

\* a finding string of one of the checks parses to its check's tag and to a
\* recommendation
ProducedParsesFully ==
    /\ Parsed.WCAG \in TagsOf(raw.category)
    /\ Parsed.Recommendation # Dash
    /\ Parsed.Recommendation # <<>>
    /\ Parsed.Category = raw.category

\* C10: for every finding string build_report hands to the parser, guideline
\* extraction comes first and recommendation extraction second: when the
\* string contains '[' and ends with ']' the guideline is the text after the
\* last '[' up to but excluding the single trailing ']' and the remaining
\* text is the trimmed text before that '[', otherwise the guideline is '-'
\* and the remaining text is the whole string; when the remaining text
\* contains 'Recommendation:' the issue is the trimmed text before its first
\* occurrence with its trailing period removed and the recommendation is the
\* trimmed text after it, otherwise '-' and the remaining text unchanged;
\* every finding string of the five checks parses to its check's WCAG tag
\* and a recommendation other than '-'.
C10_ParseOrder ==
    pc = "parsed" =>
        /\ Len(records) = 1
        /\ Parsed.WCAG = GuidelineSingle
        /\ Parsed.Issue = ExpectedIssue
        /\ Parsed.Recommendation = ExpectedRecommendation
        /\ ProducedParsesFully

C10_Witness ==
    /\ pc = "parsed"
    /\ Cardinality({i \in 1..Len(Text) : Text[i] = "["}) >= 2
    /\ Cardinality({i \in 1..Len(Text) : Text[i] = "]"}) >= 2
    /\ Parsed.WCAG = Chars("WCAG 2.4.2 Page Titled")
    /\ Parsed.Recommendation # Dash

====
